---- MODULE Spec2Model ----
(***************************************************************************)
(* Schema analyzer: composite identifiers, metadata store, graph builder,  *)
(* sub-model extraction, visitor driver and fact/dimension scoring.        *)
(*                                                                         *)
(* Strings are sequences of one-character strings, so that joining,        *)
(* splitting and substring search are computed and not assumed.  Constant  *)
(* prefixes ("table", "://") and SQL type names, which the program never   *)
(* takes apart, are single tokens.  Python's None is the one-token         *)
(* sequence <<"None">>, which no string of characters equals.              *)
(***************************************************************************)
EXTENDS Integers, Sequences, FiniteSets, TLC

VARIABLES
    idKind,     \* identifier functions: the node kind whose function is applied
    idRecs,     \* identifier functions: the two records given to it
    idOut,      \* identifier functions: the two identifiers computed
    idStore,    \* identifier functions: dict(list((id, row) ...)) of the two records
    heap,       \* objectives: the dicts and lists they are made of, by address
    objs,       \* objectives: handle -> objective [name, node_scores: address]
    objOut,     \* objectives: what the last get_node_scores returned
    objOp,      \* objectives: the last operation, its operands and its outcome
    colDefs,    \* one column visit: the type scorer's TypeScoringDefinition
    colData,    \* one column visit: the column's metadata row
    colSc,      \* one column visit: the scorer after visit_column
    file,       \* store operations: the content of the bundle file, <<>> if none
    storeOp,    \* store operations: the last one and its outcome
    pc,         \* where the analysis stands
    md,         \* the DatabaseGraphMetadata store
    g,          \* the DatabaseGraph's graph
    submodels,  \* the node sets yielded by get_isolated_submodels
    visitor,    \* accept_visitor: the visitor
    fallback_nav, \* accept_visitor: the fallback navigation, keyed by enum value
    stack,      \* accept_visitor: the visit stack
    scorers,    \* the composite's components, each with its two objectives
    err,        \* the error raised to the caller, "none" if none
    last,       \* the last round of the driver's loop: entry, follow set, outcome
    seen,       \* history: the stacks the running loop has had at its head
    trail       \* history: the entries the running loop has popped, in order

idVars == <<idKind, idRecs, idOut, idStore>>
objVars == <<heap, objs, objOut, objOp>>
colVars == <<colDefs, colData, colSc>>
ioVars == <<file, storeOp>>
analysisVars ==
    <<pc, g, submodels, visitor, fallback_nav, stack, scorers, err, last, seen,
      trail>>
mainVars ==
    <<pc, md, g, submodels, visitor, fallback_nav, stack, scorers, err, last, seen,
      trail>>
vars == <<idKind, idRecs, idOut, idStore, heap, objs, objOut, objOp, colDefs,
          colData, colSc, file, storeOp, pc, md, g, submodels, visitor, fallback_nav,
          stack, scorers, err, last, seen, trail>>

None == <<"None">>

\* Python truthiness of an optional string: None and "" are falsy.
Truthy(s) == s # None /\ s # <<>>

RECURSIVE Join(_, _)
\* sep.join(parts)
Join(sep, parts) ==
    IF Len(parts) = 0 THEN <<>>
    ELSE IF Len(parts) = 1 THEN parts[1]
    ELSE parts[1] \o sep \o Join(sep, Tail(parts))

sanitize_schema(schema) == IF Truthy(schema) THEN schema ELSE <<"@">>

composite_id(node_type, cat, schema, rest) ==
    <<node_type, "://">> \o Join(<<".">>, <<cat, sanitize_schema(schema)>> \o rest)

schema_id(table_catalog, table_schem) ==
    composite_id("schema", table_catalog, table_schem, <<>>)

table_id(table_cat, table_schem, table_name) ==
    composite_id("table", table_cat, table_schem, <<table_name>>)

column_id(table_cat, table_schem, table_name, column_name) ==
    composite_id("column", table_cat, table_schem, <<table_name, column_name>>)

pk_id(table_cat, table_schem, table_name, pk_name) ==
    composite_id("pk", table_cat, table_schem,
                 <<table_name, IF Truthy(pk_name) THEN pk_name ELSE <<"@">> >>)

fk_id(table_cat, table_schem, table_name, fk_name) ==
    composite_id("fk", table_cat, table_schem,
                 <<table_name, IF Truthy(fk_name) THEN fk_name ELSE <<"@">> >>)

type_id(type_name) == <<"NodeTypes.TYPE", "://">> \o type_name

----------------------------------------------------------------------------
(* Metadata records (only the fields the analyzer reads or copies).        *)

MetadataSchemaRow(schem, cat) == [table_schem |-> schem, table_catalog |-> cat]

MetadataTableRow(cat, schem, name) ==
    [table_cat |-> cat, table_schem |-> schem, table_name |-> name]

MetadataColumnRow(cat, schem, table, column, type) ==
    [table_cat |-> cat, table_schem |-> schem, table_name |-> table,
     column_name |-> column, type_name |-> type]

MetadataPrimaryKeyRow(cat, schem, table, column, seq, name) ==
    [table_cat |-> cat, table_schem |-> schem, table_name |-> table,
     column_name |-> column, key_seq |-> seq, pk_name |-> name]

MetadataForeignKeyRow(pkt, pkc, fkt, fkc, seq, name) ==
    [pktable_cat |-> pkt[1], pktable_schem |-> pkt[2], pktable_name |-> pkt[3],
     pkcolumn_name |-> pkc,
     fktable_cat |-> fkt[1], fktable_schem |-> fkt[2], fktable_name |-> fkt[3],
     fkcolumn_name |-> fkc, key_seq |-> seq, fk_name |-> name]

MetadataTypeInfoRow(type) == [type_name |-> type]

----------------------------------------------------------------------------
(* Insertion-ordered dictionaries: keys in order of first insertion.       *)

EmptyDict == [keys |-> <<>>, val |-> <<>>]

DictHas(d, k) == k \in DOMAIN d.val

\* d[k] = v
DictPut(d, k, v) ==
    [keys |-> IF DictHas(d, k) THEN d.keys ELSE Append(d.keys, k),
     val |-> [x \in DOMAIN d.val \cup {k} |-> IF x = k THEN v ELSE d.val[x]]]

KeySet(d) == DOMAIN d.val

\* dict(list((ids[i], rows[i]) ...)): a later row replaces an earlier one
\* with the same identifier
DictOfRows(ids, rows) ==
    LET f[i \in 0..Len(rows)] ==
            IF i = 0 THEN EmptyDict ELSE DictPut(f[i - 1], ids[i], rows[i])
    IN f[Len(rows)]

\* rows appended to the list kept under their key's identifier
DictOfRowLists(ids, rows) ==
    LET f[i \in 0..Len(rows)] ==
            IF i = 0 THEN EmptyDict
            ELSE LET old == IF DictHas(f[i - 1], ids[i])
                            THEN f[i - 1].val[ids[i]] ELSE <<>>
                 IN DictPut(f[i - 1], ids[i], Append(old, rows[i]))
    IN f[Len(rows)]

schema_row_to_node(row) == schema_id(row.table_catalog, row.table_schem)
table_row_to_node(row) == table_id(row.table_cat, row.table_schem, row.table_name)
column_row_to_node(row) ==
    column_id(row.table_cat, row.table_schem, row.table_name, row.column_name)
column_pk_to_node(row) ==
    pk_id(row.table_cat, row.table_schem, row.table_name, row.pk_name)
column_fk_to_node(row) ==
    fk_id(row.fktable_cat, row.fktable_schem, row.fktable_name, row.fk_name)
type_to_node(row) == type_id(row.type_name)

load_schemas(rows, dbname) ==
    LET schemas == DictOfRows([i \in 1..Len(rows) |-> schema_row_to_node(rows[i])], rows)
    IN IF Len(schemas.keys) = 0
       THEN DictPut(schemas, schema_id(dbname, None), MetadataSchemaRow(None, dbname))
       ELSE schemas

load_tables(rows) ==
    DictOfRows([i \in 1..Len(rows) |-> table_row_to_node(rows[i])], rows)
load_columns(rows) ==
    DictOfRows([i \in 1..Len(rows) |-> column_row_to_node(rows[i])], rows)
load_pks(rows) ==
    DictOfRowLists([i \in 1..Len(rows) |-> column_pk_to_node(rows[i])], rows)
load_fks(rows) ==
    DictOfRowLists([i \in 1..Len(rows) |-> column_fk_to_node(rows[i])], rows)
load_types(rows) ==
    DictOfRows([i \in 1..Len(rows) |-> type_to_node(rows[i])], rows)

\* dict(list(a.items()) + list(b.items()))
DictUnion(a, b) ==
    LET f[i \in 0..Len(b.keys)] ==
            IF i = 0 THEN a ELSE DictPut(f[i - 1], b.keys[i], b.val[b.keys[i]])
    IN f[Len(b.keys)]

EmptyStore ==
    [schemas |-> EmptyDict, tables |-> EmptyDict, columns |-> EmptyDict,
     pks |-> EmptyDict, fks |-> EmptyDict, types |-> EmptyDict,
     has_data |-> FALSE, node_idx |-> EmptyDict, node_by_type_idx |-> <<>>]

create_indexes(m) ==
    [m EXCEPT
        !.node_by_type_idx =
            [schema |-> m.schemas.keys, table |-> m.tables.keys,
             column |-> m.columns.keys, pk |-> m.pks.keys, fk |-> m.fks.keys,
             type |-> m.types.keys],
        !.node_idx =
            DictUnion(DictUnion(DictUnion(DictUnion(DictUnion(
                m.schemas, m.tables), m.columns), m.pks), m.fks), m.types)]

\* DatabaseGraphMetadata.load_from_db on a source answering with src
load_from_db(m, src, dbname) ==
    create_indexes(
        [m EXCEPT !.schemas = load_schemas(src.schemas, dbname),
                  !.tables = load_tables(src.tables),
                  !.columns = load_columns(src.columns),
                  !.pks = load_pks(src.pks),
                  !.fks = load_fks(src.fks),
                  !.types = load_types(src.types),
                  !.has_data = TRUE])

get_node_metadata(m, node_id) == m.node_idx.val[node_id]

----------------------------------------------------------------------------
(* The directed graph (networkx DiGraph): one attribute bag per node and   *)
(* per ordered pair of nodes; nodes and each node's successors are kept in *)
(* insertion order.                                                        *)

EmptyGraph == [nodes |-> <<>>, nattr |-> <<>>, adj |-> <<>>, eattr |-> <<>>]

HasNode(gr, n) == n \in DOMAIN gr.nattr
HasEdge(gr, u, v) == <<u, v>> \in DOMAIN gr.eattr

FnPut(f, k, v) == [x \in DOMAIN f \cup {k} |-> IF x = k THEN v ELSE f[x]]

\* dict.update
Update(old, new) ==
    [k \in DOMAIN old \cup DOMAIN new |-> IF k \in DOMAIN new THEN new[k] ELSE old[k]]

\* fields that hold numbers; they are never None in the metadata
IntFields == {"key_seq"}

filter_out_none(d) ==
    LET keep == {k \in DOMAIN d : k \in IntFields \/ d[k] # None}
    IN [k \in keep |-> d[k]]

add_node(gr, n, attrs) ==
    IF HasNode(gr, n)
    THEN [gr EXCEPT !.nattr[n] = Update(@, attrs)]
    ELSE [nodes |-> Append(gr.nodes, n),
          nattr |-> FnPut(gr.nattr, n, attrs),
          adj |-> FnPut(gr.adj, n, <<>>),
          eattr |-> gr.eattr]

\* DiGraph.add_edge: missing end nodes are created without attributes; an
\* edge that is already there keeps its place and has its attributes updated
add_edge(gr, u, v, attrs) ==
    LET g1 == add_node(add_node(gr, u, <<>>), v, <<>>)
    IN IF HasEdge(g1, u, v)
       THEN [g1 EXCEPT !.eattr[<<u, v>>] = Update(@, attrs)]
       ELSE [g1 EXCEPT !.adj[u] = Append(@, v),
                       !.eattr = FnPut(@, <<u, v>>, attrs)]

NodeSet(gr) == DOMAIN gr.nattr
EdgeSet(gr) == DOMAIN gr.eattr
HasAttr(attrs, k) == k \in DOMAIN attrs

----------------------------------------------------------------------------
(* Graph builder.                                                          *)

EdgeAttrs(edge_type, row) == Update([edge_type |-> edge_type], filter_out_none(row))
NodeAttrs(node_type, row) == Update([node_type |-> node_type], filter_out_none(row))

BuildFailed == [ok |-> FALSE, g |-> EmptyGraph, missing_types |-> {}]

add_type_nodes(gr, m) ==
    LET f[i \in 0..Len(m.types.keys)] ==
            IF i = 0 THEN gr
            ELSE add_node(f[i - 1], m.types.keys[i],
                          NodeAttrs("type", m.types.val[m.types.keys[i]]))
    IN f[Len(m.types.keys)]

add_schema_nodes(gr, m) ==
    LET f[i \in 0..Len(m.schemas.keys)] ==
            IF i = 0 THEN gr
            ELSE add_node(f[i - 1], m.schemas.keys[i],
                          NodeAttrs("schema", m.schemas.val[m.schemas.keys[i]]))
    IN f[Len(m.schemas.keys)]

\* one round of the loop over md.tables.items()
add_table(r, m, id) ==
    LET row == m.tables.val[id]
        from_schema == schema_id(row.table_cat, row.table_schem)
    IN IF ~r.ok THEN r
       ELSE IF ~DictHas(m.schemas, from_schema) THEN BuildFailed
       ELSE [r EXCEPT !.g = add_edge(add_node(r.g, id, NodeAttrs("table", row)),
                                     from_schema, id,
                                     [edge_type |-> "schema-table"])]

\* one round of the loop over md.columns.items()
add_column(r, m, id, include_type_nodes) ==
    LET row == m.columns.val[id]
        from_table == table_id(row.table_cat, row.table_schem, row.table_name)
        to_type == type_id(row.type_name)
        g1 == add_edge(add_edge(add_node(r.g, id, NodeAttrs("column", row)),
                                from_table, id, [edge_type |-> "table-column"]),
                       id, from_table, [edge_type |-> "column-table"])
        is_missing == ~DictHas(m.types, to_type) /\ to_type \notin r.missing_types
        g2 == IF is_missing THEN add_node(g1, to_type, [wtftype |-> TRUE]) ELSE g1
    IN IF ~r.ok THEN r
       ELSE IF ~DictHas(m.tables, from_table) THEN BuildFailed
       ELSE IF ~include_type_nodes THEN [r EXCEPT !.g = g1]
       ELSE [ok |-> TRUE,
             g |-> add_edge(g2, id, to_type, [edge_type |-> "column-type"]),
             missing_types |-> IF is_missing THEN r.missing_types \cup {to_type}
                               ELSE r.missing_types]

\* an inner loop that links the key's first member only
add_pk_rows_first_only(r, m, id, rows) ==
    LET of_column == column_id(rows[1].table_cat, rows[1].table_schem,
                               rows[1].table_name, rows[1].column_name)
    IN IF ~r.ok THEN r
       ELSE IF \E i \in 1..Len(rows) : ~DictHas(m.columns, column_row_to_node(rows[i]))
       THEN BuildFailed
       ELSE [r EXCEPT !.g = add_edge(@, id, of_column, EdgeAttrs("pk-column", rows[1]))]

\* the inner loop of a primary key: one pk-column edge per member row
add_pk_rows(r, m, id, rows) ==
    LET f[i \in 0..Len(rows)] ==
            IF i = 0 THEN r
            ELSE LET row == rows[i]
                     of_column == column_id(row.table_cat, row.table_schem,
                                            row.table_name, row.column_name)
                 IN IF ~f[i - 1].ok THEN f[i - 1]
                    ELSE IF ~DictHas(m.columns, of_column) THEN BuildFailed
                    ELSE [f[i - 1] EXCEPT
                            !.g = add_edge(@, id, of_column, EdgeAttrs("pk-column", row))]
    IN f[Len(rows)]

\* one round of the loop over md.pks.items()
add_pk(r, m, id) ==
    LET rows == m.pks.val[id]
        first_row == rows[1]
        from_table == table_id(first_row.table_cat, first_row.table_schem,
                               first_row.table_name)
    IN IF ~r.ok THEN r
       ELSE IF ~DictHas(m.tables, from_table) THEN BuildFailed
       ELSE add_pk_rows(
                [r EXCEPT !.g = add_edge(
                    add_node(r.g, id, NodeAttrs("pk", [pk_name |-> first_row.pk_name])),
                    from_table, id, [edge_type |-> "table-pk"])],
                m, id, rows)

\* the four edges of one foreign-key row, without the reverse reference
add_fk_row_edges_no_reference_by(gr, id, row) ==
    LET fk_column == column_id(row.fktable_cat, row.fktable_schem,
                               row.fktable_name, row.fkcolumn_name)
        pk_column == column_id(row.pktable_cat, row.pktable_schem,
                               row.pktable_name, row.pkcolumn_name)
    IN add_edge(add_edge(add_edge(gr,
            fk_column, id, EdgeAttrs("column-fk", row)),
            id, pk_column, EdgeAttrs("fk-column", row)),
            fk_column, pk_column, EdgeAttrs("reference", row))

\* the body of the inner loop of a foreign key: the four edges of one row
add_fk_row_edges(gr, id, row) ==
    LET fk_column == column_id(row.fktable_cat, row.fktable_schem,
                               row.fktable_name, row.fkcolumn_name)
        pk_column == column_id(row.pktable_cat, row.pktable_schem,
                               row.pktable_name, row.pkcolumn_name)
    IN add_edge(add_edge(add_edge(add_edge(gr,
            fk_column, id, EdgeAttrs("column-fk", row)),
            id, pk_column, EdgeAttrs("fk-column", row)),
            fk_column, pk_column, EdgeAttrs("reference", row)),
            pk_column, fk_column, EdgeAttrs("reference-by", row))

\* one round of the loop over md.fks.items(); nothing is asserted here
add_fk(r, m, id) ==
    LET rows == m.fks.val[id]
        first_row == rows[1]
        pk_table == table_id(first_row.pktable_cat, first_row.pktable_schem,
                             first_row.pktable_name)
        fk_table == table_id(first_row.fktable_cat, first_row.fktable_schem,
                             first_row.fktable_name)
        g1 == add_edge(add_edge(
                add_node(r.g, id, NodeAttrs("fk", [fk_name |-> first_row.fk_name])),
                fk_table, id, [edge_type |-> "table-fk"]),
                id, pk_table, [edge_type |-> "fk-table"])
        f[i \in 0..Len(rows)] ==
            IF i = 0 THEN g1 ELSE add_fk_row_edges(f[i - 1], id, rows[i])
    IN IF ~r.ok THEN r ELSE [r EXCEPT !.g = f[Len(rows)]]

\* _full_graph_factory: [ok |-> FALSE] when an assertion fails
full_graph_factory(m, include_type_nodes) ==
    LET g0 == IF include_type_nodes THEN add_type_nodes(EmptyGraph, m) ELSE EmptyGraph
        g1 == add_schema_nodes(g0, m)
        tabs[i \in 0..Len(m.tables.keys)] ==
            IF i = 0 THEN [ok |-> TRUE, g |-> g1, missing_types |-> {}]
            ELSE add_table(tabs[i - 1], m, m.tables.keys[i])
        cols[i \in 0..Len(m.columns.keys)] ==
            IF i = 0 THEN tabs[Len(m.tables.keys)]
            ELSE add_column(cols[i - 1], m, m.columns.keys[i], include_type_nodes)
        pks[i \in 0..Len(m.pks.keys)] ==
            IF i = 0 THEN cols[Len(m.columns.keys)]
            ELSE add_pk(pks[i - 1], m, m.pks.keys[i])
        fks[i \in 0..Len(m.fks.keys)] ==
            IF i = 0 THEN pks[Len(m.pks.keys)]
            ELSE add_fk(fks[i - 1], m, m.fks.keys[i])
    IN fks[Len(m.fks.keys)]

----------------------------------------------------------------------------
(* Sub-model extraction.                                                   *)

Successors(gr, u) == {gr.adj[u][i] : i \in 1..Len(gr.adj[u])}

RECURSIVE ReachClosure(_, _)
\* least fixpoint: r[u] is the set of nodes reachable from u
ReachClosure(gr, r) ==
    LET r2 == [u \in NodeSet(gr) |-> r[u] \cup UNION {r[v] : v \in r[u]}]
    IN IF r2 = r THEN r ELSE ReachClosure(gr, r2)

Reachable(gr) == ReachClosure(gr, [u \in NodeSet(gr) |-> {u} \cup Successors(gr, u)])

\* what a careless reimplementation computes: the nodes reachable from a node
reachable_sets(gr) ==
    LET r == Reachable(gr) IN {r[u] : u \in NodeSet(gr)}

\* nx.strongly_connected_components
strongly_connected_components(gr) ==
    LET r == Reachable(gr)
    IN {{v \in NodeSet(gr) : v \in r[u] /\ u \in r[v]} : u \in NodeSet(gr)}

InEdges(gr, n) == {e \in EdgeSet(gr) : e[2] = n}
OutEdges(gr, n) == {e \in EdgeSet(gr) : e[1] = n}

\* the node set of the sub-model of one component
submodel_of(gr, component) ==
    component
    \cup {e[1] : e \in {x \in EdgeSet(gr) :
                    x[2] \in component /\ gr.eattr[x].edge_type \in {"schema-table"}}}
    \cup {e[2] : e \in {x \in EdgeSet(gr) :
                    x[1] \in component /\ gr.eattr[x].edge_type \in {"column-type"}}}

\* the trimming test with an off-by-one threshold
is_trimmed_pairs_too(component) == Cardinality(component) <= 2

\* len(component) == 1
is_trimmed(component) == Cardinality(component) = 1

\* the node sets of the graphs yielded by get_isolated_submodels
get_isolated_submodels(gr) ==
    {submodel_of(gr, c) : c \in {x \in strongly_connected_components(gr) : ~is_trimmed(x)}}

----------------------------------------------------------------------------
(* Scoring primitives.  A reason is kept as a tag, not as rendered text.   *)

SCORE_NORMAL == 100
SCORE_GOOD == 200
DISQUALIFIED == -100000

NodeScore(node_id, score, reason) ==
    [node_id |-> node_id, score |-> score, reason |-> reason]

\* a disqualification no heavier than one ordinary score
NodeDisqualified_as_penalty(node_id, reason) == NodeScore(node_id, -SCORE_NORMAL, reason)

NodeDisqualified(node_id, reason) == NodeScore(node_id, DISQUALIFIED, reason)

\* NodeScoringObjective(name): _node_scores is an insertion-ordered dict
NodeScoringObjective(name) == [name |-> name, node_scores |-> EmptyDict]

\* NodeScoringObjective.add
add(obj, score) ==
    [obj EXCEPT !.node_scores =
        IF DictHas(@, score.node_id)
        THEN DictPut(@, score.node_id, Append(@.val[score.node_id], score))
        ELSE DictPut(@, score.node_id, <<score>>)]

SumScores(scores) ==
    LET f[i \in 0..Len(scores)] == IF i = 0 THEN 0 ELSE f[i - 1] + scores[i].score
    IN f[Len(scores)]

\* a merge in which a node recorded in both operands keeps the first
\* operand's scores only
merge_first_wins(a, b) ==
    LET f[i \in 0..Len(b.node_scores.keys)] ==
            IF i = 0 THEN a.node_scores
            ELSE LET k == b.node_scores.keys[i]
                 IN IF DictHas(f[i - 1], k) THEN f[i - 1]
                    ELSE DictPut(f[i - 1], k, b.node_scores.val[k])
    IN [name |-> a.name, node_scores |-> f[Len(b.node_scores.keys)]]

\* NodeScoringObjective.merge for objectives of one name
merge(a, b) ==
    LET f[i \in 0..Len(b.node_scores.keys)] ==
            IF i = 0 THEN a.node_scores
            ELSE LET k == b.node_scores.keys[i]
                 IN IF DictHas(f[i - 1], k)
                    THEN DictPut(f[i - 1], k, f[i - 1].val[k] \o b.node_scores.val[k])
                    ELSE DictPut(f[i - 1], k, b.node_scores.val[k])
    IN [name |-> a.name, node_scores |-> f[Len(b.node_scores.keys)]]

\* the totals of get_node_scores() as the dict add_fact_and_dim_scores makes
\* of them: node id -> total
node_totals(obj) ==
    [k \in KeySet(obj.node_scores) |-> SumScores(obj.node_scores.val[k])]

----------------------------------------------------------------------------
(* Type-based scorer.                                                      *)

TypeDimScores ==
    (<<"VARCHAR">> :> SCORE_GOOD) @@ (<<"TEXT">> :> SCORE_NORMAL) @@
    (<<"BIT">> :> SCORE_GOOD) @@ (<<"CHAR">> :> SCORE_GOOD) @@
    (<<"TIME">> :> SCORE_GOOD) @@ (<<"TIMESTAMP">> :> SCORE_GOOD) @@
    (<<"DATE">> :> SCORE_GOOD) @@ (<<"DATETIME">> :> SCORE_GOOD)

TypeFactScores ==
    (<<"DECIMAL">> :> SCORE_GOOD) @@ (<<"NUMERIC">> :> SCORE_GOOD) @@
    (<<"INT">> :> SCORE_NORMAL) @@ (<<"SMALLINT">> :> SCORE_NORMAL) @@
    (<<"SMALLINT UNSIGNED">> :> SCORE_NORMAL)

TypeFactDq ==
    {<<"VARCHAR">>, <<"TEXT">>, <<"TIME">>, <<"TIMESTAMP">>, <<"DATE">>,
     <<"DATETIME">>, <<"LONGTEXT">>, <<"BLOB">>, <<"LONGBLOB">>}

\* TypeScoringDefinition(dim_scores, fact_scores, fact_dq)
TypeScoringDefinition(dim_scores, fact_scores, fact_dq) ==
    [dim_scores |-> dim_scores, fact_scores |-> fact_scores, fact_dq |-> fact_dq]

DEFAULT_TYPE_SCORING == TypeScoringDefinition(TypeDimScores, TypeFactScores, TypeFactDq)

\* a categorisation that looks at fact viability before disqualification
categorize_viable_first(defs, sc, col_id, column_data) ==
    LET type_name == column_data.type_name
        dim == IF type_name \in DOMAIN defs.dim_scores
               THEN add(sc.dim, NodeScore(col_id, defs.dim_scores[type_name], "type-dim"))
               ELSE sc.dim
        fact == IF type_name \in DOMAIN defs.fact_scores
                THEN add(sc.fact,
                         NodeScore(col_id, defs.fact_scores[type_name], "type-fact"))
                ELSE IF type_name \in defs.fact_dq
                THEN add(sc.fact, NodeDisqualified(col_id, "type-dq"))
                ELSE sc.fact
    IN [sc EXCEPT !.fact = fact, !.dim = dim]

\* TypeBasedColumnScoring._categorize_based_on_type of a scorer made with
\* defs, on the scorer's pair of objectives sc = [fact, dim]
categorize(defs, sc, col_id, column_data) ==
    LET type_name == column_data.type_name
        dim == IF type_name \in DOMAIN defs.dim_scores
               THEN add(sc.dim, NodeScore(col_id, defs.dim_scores[type_name], "type-dim"))
               ELSE sc.dim
        fact == IF type_name \in defs.fact_dq
                THEN add(sc.fact, NodeDisqualified(col_id, "type-dq"))
                ELSE IF type_name \in DOMAIN defs.fact_scores
                THEN add(sc.fact,
                         NodeScore(col_id, defs.fact_scores[type_name], "type-fact"))
                ELSE sc.fact
    IN [sc EXCEPT !.fact = fact, !.dim = dim]

\* the same for the scorer add_fact_and_dim_scores makes: the defaults
categorize_based_on_type(sc, col_id, column_data) ==
    categorize(DEFAULT_TYPE_SCORING, sc, col_id, column_data)

----------------------------------------------------------------------------
(* Key-disqualification scorer.                                            *)

\* KeyDisqualificationScoring.visit_pk
keydq_visit_pk(sc, pk_data) ==
    LET f[i \in 0..Len(pk_data)] ==
            IF i = 0 THEN sc.fact
            ELSE add(f[i - 1],
                     NodeDisqualified(
                        column_id(pk_data[i].table_cat, pk_data[i].table_schem,
                                  pk_data[i].table_name, pk_data[i].column_name),
                        "pk-member"))
    IN [sc EXCEPT !.fact = f[Len(pk_data)]]

\* KeyDisqualificationScoring.visit_reference; edge_data['fk_name'] raises
\* KeyError when the edge has no such attribute
keydq_visit_reference(sc, col_id, from_column_id, edge_data) ==
    IF ~HasAttr(edge_data, "fk_name")
    THEN [err |-> "KeyError", sc |-> sc]
    ELSE [err |-> "none",
          sc |-> [sc EXCEPT !.fact =
                    add(add(@, NodeDisqualified(col_id, "referenced")),
                        NodeDisqualified(from_column_id, "foreign-key"))]]

----------------------------------------------------------------------------
(* Keyword-based scorer.                                                   *)

Uppers ==
    <<"A", "B", "C", "D", "E", "F", "G", "H", "I", "J", "K", "L", "M", "N",
      "O", "P", "Q", "R", "S", "T", "U", "V", "W", "X", "Y", "Z">>
Lowers ==
    <<"a", "b", "c", "d", "e", "f", "g", "h", "i", "j", "k", "l", "m", "n",
      "o", "p", "q", "r", "s", "t", "u", "v", "w", "x", "y", "z">>

IsUpper(c) == \E i \in 1..Len(Uppers) : Uppers[i] = c
IsLower(c) == \E i \in 1..Len(Lowers) : Lowers[i] = c
ToLower(c) == IF IsUpper(c) THEN Lowers[CHOOSE i \in 1..Len(Uppers) : Uppers[i] = c] ELSE c

\* str.lower
Lower(w) == [i \in 1..Len(w) |-> ToLower(w[i])]

Contains(w, c) == \E i \in 1..Len(w) : w[i] = c

RECURSIVE Split(_, _)
\* val.split(c)
Split(val, c) ==
    IF ~Contains(val, c) THEN <<val>>
    ELSE LET i == CHOOSE k \in 1..Len(val) :
                    val[k] = c /\ \A j \in 1..(k - 1) : val[j] # c
         IN <<SubSeq(val, 1, i - 1)>> \o Split(SubSeq(val, i + 1, Len(val)), c)

\* the last index of the run of characters of one class that starts after i
RunEnd(val, i, upper) ==
    CHOOSE e \in i..Len(val) :
        /\ \A j \in (i + 1)..e : IF upper THEN IsUpper(val[j]) ELSE IsLower(val[j])
        /\ e < Len(val) => IF upper THEN ~IsUpper(val[e + 1]) ELSE ~IsLower(val[e + 1])

RECURSIVE CamelFrom(_, _)
\* the matches of [A-Z](?:[a-z]+|[A-Z]*(?=[A-Z]|$)) in val from position i on
CamelFrom(val, i) ==
    IF i > Len(val) THEN <<>>
    ELSE IF ~IsUpper(val[i]) THEN CamelFrom(val, i + 1)
    ELSE LET low_end == RunEnd(val, i, FALSE)
             up_end == RunEnd(val, i, TRUE)
         IN IF low_end > i
            THEN <<SubSeq(val, i, low_end)>> \o CamelFrom(val, low_end + 1)
            ELSE IF up_end = Len(val)
            THEN <<SubSeq(val, i, up_end)>>
            ELSE IF up_end > i
            THEN <<SubSeq(val, i, up_end - 1)>> \o CamelFrom(val, up_end)
            ELSE CamelFrom(val, i + 1)

split_camel_case(val) == CamelFrom(val, 1)

db_identifier_to_lc_words(val) ==
    LET words == IF Contains(val, "_") THEN Split(val, "_")
                 ELSE IF Len(split_camel_case(val)) = 0 THEN <<val>>
                 ELSE split_camel_case(val)
    IN [i \in 1..Len(words) |-> Lower(words[i])]

\* _DEFAULT_KEYWORD_SCORING.fact_scores, in the dictionary's order
KeywordFactScores == <<
    [kw |-> <<"p", "r", "i", "c", "e">>, score |-> SCORE_GOOD],
    [kw |-> <<"q", "t", "y">>, score |-> SCORE_GOOD],
    [kw |-> <<"q", "u", "a", "n", "t", "i", "t", "y">>, score |-> SCORE_GOOD],
    [kw |-> <<"c", "o", "s", "t">>, score |-> SCORE_GOOD],
    [kw |-> <<"r", "e", "v", "e", "n", "u", "e">>, score |-> SCORE_NORMAL],
    [kw |-> <<"a", "m", "o", "u", "n", "t">>, score |-> SCORE_GOOD],
    [kw |-> <<"m", "a", "r", "g", "i", "n">>, score |-> SCORE_NORMAL],
    [kw |-> <<"d", "i", "s", "c", "o", "u", "n", "t">>, score |-> SCORE_NORMAL],
    [kw |-> <<"r", "a", "t", "e">>, score |-> SCORE_GOOD],
    [kw |-> <<"s", "a", "l", "e">>, score |-> SCORE_NORMAL],
    [kw |-> <<"q", "u", "o", "t", "a">>, score |-> SCORE_NORMAL],
    [kw |-> <<"d", "u", "r", "a", "t", "i", "o", "n">>, score |-> SCORE_GOOD],
    [kw |-> <<"p", "e", "r", "c", "e", "n", "t">>, score |-> SCORE_NORMAL],
    [kw |-> <<"p", "c", "t">>, score |-> SCORE_NORMAL] >>

KeywordFactDq ==
    {<<"i", "d">>,
     <<"i", "d", "e", "n", "t", "i", "f", "i", "e", "r">>,
     <<"k", "e", "y">>,
     <<"u", "i", "d">>,
     <<"g", "i", "d">>,
     <<"u", "u", "i", "d">>}

IsKeyword(w) == \E i \in 1..Len(KeywordFactScores) : KeywordFactScores[i].kw = w

IsSubstring(kw, w) ==
    \E i \in 0..(Len(w) - Len(kw)) : SubSeq(w, i + 1, i + Len(kw)) = kw

\* the dictionary entries selected by hit(k), as a list in dictionary order
Matching(hit) ==
    LET f[i \in 0..Len(KeywordFactScores)] ==
            IF i = 0 THEN <<>>
            ELSE IF hit[i] THEN Append(f[i - 1], KeywordFactScores[i]) ELSE f[i - 1]
    IN f[Len(KeywordFactScores)]

\* dict keyed by the matched words: every keyword that is one of the words
get_strongly_matching_keywords(words) ==
    Matching([i \in 1..Len(KeywordFactScores) |->
                \E j \in 1..Len(words) : words[j] = KeywordFactScores[i].kw])

\* every keyword found inside one of the words
get_weakly_matching_keywords(words) ==
    Matching([i \in 1..Len(KeywordFactScores) |->
                \E j \in 1..Len(words) : IsSubstring(KeywordFactScores[i].kw, words[j])])

get_disqualified_words(words) ==
    IF words[Len(words)] \in KeywordFactDq THEN <<words[Len(words)]>> ELSE <<>>

SumLens(found) ==
    LET f[i \in 0..Len(found)] == IF i = 0 THEN 0 ELSE f[i - 1] + Len(found[i].kw)
    IN f[Len(found)]

\* a multi-word analysis that scores a single exact match as well
analyze_multiword_any_match(fact, col_id, words) ==
    LET f1 == IF Len(get_disqualified_words(words)) > 0
              THEN add(fact, NodeDisqualified(col_id, "keyword-dq"))
              ELSE fact
        found_keywords == get_strongly_matching_keywords(words)
    IN IF Len(found_keywords) > 0
       THEN add(f1, NodeScore(col_id, SumScores(found_keywords), "keywords-matched"))
       ELSE f1

\* KeywordBasedColumnScoring._analyze_multiword on the fact objective
analyze_multiword(fact, col_id, words) ==
    LET f1 == IF Len(get_disqualified_words(words)) > 0
              THEN add(fact, NodeDisqualified(col_id, "keyword-dq"))
              ELSE fact
        found_keywords == get_strongly_matching_keywords(words)
    IN IF Len(found_keywords) > 1
       THEN add(f1, NodeScore(col_id, SumScores(found_keywords), "keywords-matched"))
       ELSE f1

\* KeywordBasedColumnScoring._analyze_singleword on the fact objective
analyze_singleword(fact, col_id, word) ==
    LET strong == get_strongly_matching_keywords(word)
        weak == get_weakly_matching_keywords(word)
    IN IF Len(get_disqualified_words(word)) > 0
       THEN add(fact, NodeDisqualified(col_id, "keyword-dq-name"))
       ELSE IF Len(strong) > 0
       THEN add(fact, NodeScore(col_id, SumScores(strong), "keyword-exact"))
       ELSE IF Len(word[1]) = SumLens(weak)
       THEN add(fact, NodeScore(col_id, SumScores(weak), "keyword-exact"))
       ELSE IF Len(weak) > 0
       THEN add(fact, NodeScore(col_id, 100, "keyword-text-search"))
       ELSE fact

\* KeywordBasedColumnScoring.visit_column
keyword_visit_column(sc, col_id, column_data) ==
    LET words == db_identifier_to_lc_words(column_data.column_name)
    IN [sc EXCEPT !.fact = IF Len(words) > 1
                           THEN analyze_multiword(@, col_id, words)
                           ELSE analyze_singleword(@, col_id, words)]

----------------------------------------------------------------------------
(* Visitors.  A callback's return value is [some |-> FALSE] for None and   *)
(* [some |-> TRUE, edges |-> S] for a set S of edge kinds.                 *)

ReturnNone == [some |-> FALSE, edges |-> {}]
Return(edges) == [some |-> TRUE, edges |-> edges]

Callbacks ==
    {"visit_schema", "visit_table", "visit_column", "visit_pk", "visit_fk",
     "visit_reference"}

\* NoopDatabaseGraphVisitor: every callback returns None
NoopDatabaseGraphVisitor ==
    [kind |-> "plain", ret |-> [c \in Callbacks |-> ReturnNone]]

\* the returns of CompositeColumnScoringVisitor's callbacks; visit_fk is the
\* inherited no-op
CompositeReturns ==
    [c \in Callbacks |->
        CASE c = "visit_schema" -> Return({"schema-table"})
          [] c = "visit_table" -> Return({"table-column", "table-pk", "table-fk"})
          [] c = "visit_column" -> Return({"reference"})
          [] OTHER -> ReturnNone]

CompositeColumnScoringVisitor == [kind |-> "composite", ret |-> CompositeReturns]

\* the returns of one built-in scorer's callbacks: visit_schema and
\* visit_table are ColumnScoringVisitor's, and so is visit_column unless the
\* scorer has its own, which returns None
ScorerReturns(name) ==
    [c \in Callbacks |->
        CASE c = "visit_schema" -> Return({"schema-table"})
          [] c = "visit_table" -> Return({"table-column", "table-pk", "table-fk"})
          [] c = "visit_column" /\ name = "keydq" -> Return({"reference"})
          [] OTHER -> ReturnNone]

\* a built-in scorer as the visitor of a traversal of its own
ScorerVisitor(name) == [kind |-> "scorer", ret |-> ScorerReturns(name)]

STD_VISIT_NAVIGATION ==
    [schema |-> {"schema-table"},
     table |-> {"table-column", "table-pk", "table-fk"},
     column |-> {"reference"}]

NoNavigation == <<>>

\* BaseColumnScoringVisitor.__init__ for the scorer called name
\* calls is history: the callbacks invoked on the scorer, in order
NewScorer(name) ==
    [name |-> name,
     fact |-> NodeScoringObjective("fact scoring"),
     dim |-> NodeScoringObjective("dimension scoring"),
     calls |-> <<>>]

\* the arguments that tell one invocation of a callback from another
Call(callback, to_node, from_node) ==
    [callback |-> callback, to_node |-> to_node, from_node |-> from_node]

\* the scorer on entry to one of its callbacks
called(sc, callback, to_node, from_node) ==
    [sc EXCEPT !.calls = Append(@, Call(callback, to_node, from_node))]

\* one component's callback: the scorer after it, or the error it raises
component_visit(sc, callback, to_node, node_data, from_node, edge_data) ==
    CASE sc.name = "type" /\ callback = "visit_column" ->
           [err |-> "none", sc |-> categorize_based_on_type(sc, to_node, node_data)]
      [] sc.name = "keyword" /\ callback = "visit_column" ->
           [err |-> "none", sc |-> keyword_visit_column(sc, to_node, node_data)]
      [] sc.name = "keydq" /\ callback = "visit_pk" ->
           [err |-> "none", sc |-> keydq_visit_pk(sc, node_data)]
      [] sc.name = "keydq" /\ callback = "visit_reference" ->
           keydq_visit_reference(sc, to_node, from_node, edge_data)
      [] OTHER -> [err |-> "none", sc |-> sc]

\* components that keep their fact scores in one objective shared by all
component_done_shared_fact(scs, i, r) ==
    [err |-> r.err,
     scs |-> [j \in 1..Len(scs) |->
                IF j = i THEN r.sc ELSE [scs[j] EXCEPT !.fact = r.sc.fact]]]

\* what one component's callback leaves in the composite: [err, scs]
component_done(scs, i, r) == [err |-> r.err, scs |-> [scs EXCEPT ![i] = r.sc]]

\* a composite that calls its first component only
broadcast_first_only(scs, callback, to_node, node_data, from_node, edge_data) ==
    component_done(scs, 1,
                   component_visit(called(scs[1], callback, to_node, from_node),
                                   callback, to_node, node_data, from_node, edge_data))

\* the loop `for component in self._components` of a composite callback
broadcast(scs, callback, to_node, node_data, from_node, edge_data) ==
    LET f[i \in 0..Len(scs)] ==
            IF i = 0 THEN [err |-> "none", scs |-> scs]
            ELSE IF f[i - 1].err # "none" THEN f[i - 1]
            ELSE component_done(f[i - 1].scs, i,
                                component_visit(called(f[i - 1].scs[i], callback,
                                                       to_node, from_node),
                                                callback, to_node,
                                                node_data, from_node, edge_data))
    IN f[Len(scs)]

\* the visitor's callback: [callback, err, ret, scs]; a scorer that is itself
\* the visitor is the one element of scs
invoke(vis, scs, callback, to_node, node_data, from_node, edge_data) ==
    IF vis.kind \in {"composite", "scorer"} /\ callback # "visit_fk"
    THEN [callback |-> callback, ret |-> vis.ret[callback]] @@
         broadcast(scs, callback, to_node, node_data, from_node, edge_data)
    ELSE [callback |-> callback, err |-> "none", ret |-> vis.ret[callback],
          scs |-> scs]

----------------------------------------------------------------------------
(* Visitor driver.                                                         *)

NoEdge == "None"

VisitStackEntry(from_node, to_node, edge_type, edge_data) ==
    [from_node |-> from_node, to_node |-> to_node, edge_type |-> edge_type,
     edge_data |-> edge_data]

visit_order == <<"schema", "table", "column", "pk", "fk">>
VisitableTypes == {visit_order[i] : i \in 1..Len(visit_order)}

Reverse(q) == [i \in 1..Len(q) |-> q[Len(q) + 1 - i]]

\* roots = [node for node, degree in g.in_degree() if degree == 0]
Roots(gr) ==
    LET f[i \in 0..Len(gr.nodes)] ==
            IF i = 0 THEN <<>>
            ELSE IF InEdges(gr, gr.nodes[i]) = {} THEN Append(f[i - 1], gr.nodes[i])
            ELSE f[i - 1]
    IN f[Len(gr.nodes)]

InitialStack(gr) ==
    LET roots == Roots(gr)
    IN [i \in 1..Len(roots) |-> VisitStackEntry(None, roots[i], NoEdge, <<>>)]

node_visit_funs ==
    [schema |-> "visit_schema", table |-> "visit_table", column |-> "visit_column",
     pk |-> "visit_pk", fk |-> "visit_fk"]

edge_visit_funs == [reference |-> "visit_reference"]

\* the callback the driver picks for a popped entry; "KeyError" when
\* node_visit_funs has no entry for the node's kind
CallbackFor(edge_type, to_node_type) ==
    IF edge_type \in DOMAIN edge_visit_funs THEN edge_visit_funs[edge_type]
    ELSE IF to_node_type \in DOMAIN node_visit_funs THEN node_visit_funs[to_node_type]
    ELSE "KeyError"

\* a choice that takes an empty set returned by the callback for no answer
follow_edges_if_truthy(retval, fallback, edge_type, to_node_type) ==
    IF retval.some /\ retval.edges # {} THEN retval.edges
    ELSE IF edge_type \in DOMAIN fallback THEN fallback[edge_type]
    ELSE IF to_node_type \in DOMAIN fallback THEN fallback[to_node_type]
    ELSE {}

follow_edges(retval, fallback, edge_type, to_node_type) ==
    IF retval.some THEN retval.edges
    ELSE IF edge_type \in DOMAIN fallback THEN fallback[edge_type]
    ELSE IF to_node_type \in DOMAIN fallback THEN fallback[to_node_type]
    ELSE {}

\* the loop over g.out_edges(to_node): [err, next_level]
collect_next_level(gr, from_node, to_node, follow) ==
    LET outs == gr.adj[to_node]
        f[i \in 0..Len(outs)] ==
            IF i = 0 THEN [err |-> "none", next_level |-> [t \in VisitableTypes |-> <<>>]]
            ELSE IF f[i - 1].err # "none" THEN f[i - 1]
            ELSE LET out_node == outs[i]
                     edge_data == gr.eattr[<<to_node, out_node>>]
                 IN IF ~HasAttr(gr.nattr[out_node], "node_type")
                    THEN [f[i - 1] EXCEPT !.err = "KeyError"]
                    ELSE IF edge_data.edge_type \notin follow THEN f[i - 1]
                    ELSE IF out_node = from_node
                    THEN [f[i - 1] EXCEPT !.err = "VisitError"]
                    ELSE IF gr.nattr[out_node].node_type \notin VisitableTypes
                    THEN [f[i - 1] EXCEPT !.err = "KeyError"]
                    ELSE [f[i - 1] EXCEPT
                            !.next_level[gr.nattr[out_node].node_type] =
                                Append(@, VisitStackEntry(to_node, out_node,
                                                          edge_data.edge_type,
                                                          edge_data))]
    IN f[Len(outs)]

\* pushes that keep each kind's discovery order on the stack, so that the
\* last discovered is popped first
pushed_entries_unreversed(next_level) ==
    next_level["fk"] \o next_level["pk"] \o next_level["column"] \o
    next_level["table"] \o next_level["schema"]

\* the entries pushed after a visit, bottom of the stack first
pushed_entries(next_level) ==
    Reverse(next_level["fk"]) \o Reverse(next_level["pk"]) \o
    Reverse(next_level["column"]) \o Reverse(next_level["table"]) \o
    Reverse(next_level["schema"])

\* a round that ends in an error of the driver's own before anything is
\* followed; by tells who raised, callback which callback was invoked
NoFollow(error, scs) ==
    [err |-> error, by |-> "driver", callback |-> "none", follow |-> {},
     push |-> <<>>, scs |-> scs]

\* a round that ends in an error raised inside the visitor's callback
RaisedInCallback(r) ==
    [by |-> "callback", callback |-> r.callback] @@ NoFollow(r.err, r.scs)

\* the pushes at the end of a round, none when the out-edge loop raised
push_next_level(follow, nl, scs) ==
    [err |-> nl.err, by |-> "driver", follow |-> follow,
     push |-> IF nl.err = "none" THEN pushed_entries(nl.next_level) ELSE <<>>,
     scs |-> scs]

\* the round once the callback has returned r
after_callback(gr, fallback, e, to_node_type, r) ==
    IF r.err # "none" THEN RaisedInCallback(r)
    ELSE [callback |-> r.callback] @@ push_next_level(
            follow_edges(r.ret, fallback, e.edge_type, to_node_type),
            collect_next_level(gr, e.from_node, e.to_node,
                               follow_edges(r.ret, fallback, e.edge_type, to_node_type)),
            r.scs)

\* one round of the while loop for the popped entry e:
\* [err, by, callback, follow, push, scs]
visit_entry(gr, m, vis, fallback, scs, e) ==
    IF ~HasAttr(gr.nattr[e.to_node], "node_type") THEN NoFollow("KeyError", scs)
    ELSE IF ~DictHas(m.node_idx, e.to_node) THEN NoFollow("KeyError", scs)
    ELSE IF CallbackFor(e.edge_type, gr.nattr[e.to_node].node_type) \notin Callbacks
    THEN NoFollow("KeyError", scs)
    ELSE after_callback(gr, fallback, e, gr.nattr[e.to_node].node_type,
                        invoke(vis, scs,
                               CallbackFor(e.edge_type, gr.nattr[e.to_node].node_type),
                               e.to_node, get_node_metadata(m, e.to_node),
                               e.from_node, e.edge_data))

RECURSIVE run_loop(_, _, _, _, _, _)
\* the while loop of accept_visitor run from stack st to its end: [err, scs]
run_loop(gr, m, vis, fallback, scs, st) ==
    IF Len(st) = 0 THEN [err |-> "none", scs |-> scs]
    ELSE LET r == visit_entry(gr, m, vis, fallback, scs, st[Len(st)])
         IN IF r.err # "none" THEN [err |-> r.err, scs |-> r.scs]
            ELSE run_loop(gr, m, vis, fallback, r.scs,
                          SubSeq(st, 1, Len(st) - 1) \o r.push)

\* accept_visitor(scorer) for one new built-in scorer: [err, scs]
accept_scorer_alone(gr, m, name) ==
    run_loop(gr, m, ScorerVisitor(name), NoNavigation, <<NewScorer(name)>>,
             InitialStack(gr))

----------------------------------------------------------------------------
(* What a metadata source can answer: one catalog, one schema, three       *)
(* tables.                                                                 *)

DbName == <<"c">>
SchemaS == <<"s">>
TableT == <<DbName, SchemaS, <<"t">> >>
TableU == <<DbName, SchemaS, <<"u">> >>
TableO == <<DbName, SchemaS, <<"o">> >>
ColId == <<"i", "d">>
ColQty == <<"q", "t", "y">>
ColName == <<"n", "a", "m", "e">>
ColGone == <<"z">>

TableRow(t) == MetadataTableRow(t[1], t[2], t[3])
ColumnRow(t, c, type) == MetadataColumnRow(t[1], t[2], t[3], c, type)
PkRow(t, c, seq, name) == MetadataPrimaryKeyRow(t[1], t[2], t[3], c, seq, name)

MaxFkRows == 3
MaxStack == 8

\* the rows a source may report for exported keys, in the order it reports
\* them; a row names the referenced (pk) column first, then the referencing
\* (fk) column.  The second and the last are unnamed keys of table u to two
\* different tables
FkRowUniverse ==
    << MetadataForeignKeyRow(TableU, ColId, TableT, ColQty, 1, <<"k">>),
       MetadataForeignKeyRow(TableT, ColQty, TableU, ColId, 1, None),
       MetadataForeignKeyRow(TableU, ColId, TableT, ColQty, 1, <<"j">>),
       MetadataForeignKeyRow(TableT, ColQty, TableT, ColQty, 1, <<"m">>),
       MetadataForeignKeyRow(TableT, ColId, TableU, ColId, 1, <<"n">>),
       MetadataForeignKeyRow(TableT, ColQty, TableT, ColId, 1, <<"p">>),
       MetadataForeignKeyRow(TableU, ColGone, TableT, ColId, 1, <<"x">>),
       MetadataForeignKeyRow(TableO, ColName, TableU, ColId, 1, None) >>

\* the elements of q whose index is in S, in q's order
Pick(q, S) ==
    LET f[i \in 0..Len(q)] ==
            IF i = 0 THEN <<>>
            ELSE IF i \in S THEN Append(f[i - 1], q[i]) ELSE f[i - 1]
    IN f[Len(q)]

FkInputs ==
    {Pick(FkRowUniverse, S) :
        S \in {x \in SUBSET (1..Len(FkRowUniverse)) : Cardinality(x) <= MaxFkRows}}

SchemaInputs == {<<MetadataSchemaRow(SchemaS, DbName)>>, <<>>}

TableInputs ==
    {<<TableRow(TableT), TableRow(TableU), TableRow(TableO)>>,
     <<TableRow(TableT), TableRow(TableU)>>}

ColumnInputs ==
    {<<ColumnRow(TableT, ColId, <<"INT">>), ColumnRow(TableT, ColQty, <<"DECIMAL">>),
       ColumnRow(TableU, ColId, <<"INT">>), ColumnRow(TableO, ColName, <<"VARCHAR">>)>>,
     <<ColumnRow(TableT, ColId, <<"INT">>), ColumnRow(TableT, ColQty, <<"DECIMAL">>),
       ColumnRow(TableU, ColId, <<"INT">>)>>}

PkInputs ==
    {<<>>,
     <<PkRow(TableT, ColId, 1, <<"p">>), PkRow(TableU, ColId, 1, None)>>,
     <<PkRow(TableT, ColId, 1, <<"p">>), PkRow(TableU, ColId, 1, None),
       PkRow(TableT, ColQty, 2, <<"p">>)>>,
     <<PkRow(TableT, ColQty, 2, <<"p">>), PkRow(TableT, ColId, 1, <<"p">>)>>,
     <<PkRow(TableU, ColGone, 1, None)>>}

TypeInputs ==
    {<<MetadataTypeInfoRow(<<"INT">>), MetadataTypeInfoRow(<<"BLOB">>)>>,
     <<MetadataTypeInfoRow(<<"INT">>), MetadataTypeInfoRow(<<"DECIMAL">>),
       MetadataTypeInfoRow(<<"VARCHAR">>)>>}

\* what the source answers to the six queries of load_from_db: every set of
\* foreign keys over the full catalogue, and every catalogue without foreign keys
SourceAnswers ==
    [schemas : {<<MetadataSchemaRow(SchemaS, DbName)>>},
     tables : {<<TableRow(TableT), TableRow(TableU), TableRow(TableO)>>},
     columns : {<<ColumnRow(TableT, ColId, <<"INT">>),
                  ColumnRow(TableT, ColQty, <<"DECIMAL">>),
                  ColumnRow(TableU, ColId, <<"INT">>),
                  ColumnRow(TableO, ColName, <<"VARCHAR">>)>>},
     pks : {<<PkRow(TableT, ColId, 1, <<"p">>), PkRow(TableU, ColId, 1, None)>>},
     fks : FkInputs, types : TypeInputs]
    \cup
    [schemas : SchemaInputs, tables : TableInputs, columns : ColumnInputs,
     pks : PkInputs, fks : {<<>>},
     types : {<<MetadataTypeInfoRow(<<"INT">>), MetadataTypeInfoRow(<<"DECIMAL">>),
                MetadataTypeInfoRow(<<"VARCHAR">>)>>}]

\* a visitor that walks back to the table from each column
BackToTableVisitor ==
    [kind |-> "plain",
     ret |-> [c \in Callbacks |->
                CASE c = "visit_schema" -> Return({"schema-table"})
                  [] c = "visit_table" -> Return({"table-column"})
                  [] c = "visit_column" -> Return({"column-table"})
                  [] OTHER -> ReturnNone]]

\* a visitor that follows references and, from their targets, the reverse
\* references
ReferenceBackVisitor ==
    [kind |-> "plain",
     ret |-> [c \in Callbacks |->
                CASE c = "visit_schema" -> Return({"schema-table"})
                  [] c = "visit_table" -> Return({"table-column"})
                  [] c = "visit_column" -> Return({"reference"})
                  [] c = "visit_reference" -> Return({"reference-by"})
                  [] OTHER -> ReturnNone]]

\* a visitor that stops at tables by returning the empty set
LeafTableVisitor ==
    [kind |-> "plain",
     ret |-> [c \in Callbacks |->
                IF c = "visit_table" THEN Return({}) ELSE ReturnNone]]

\* a fallback navigation with an entry for an edge kind: nothing is followed
\* from a column reached by a reference
ReferenceOnceNavigation ==
    [schema |-> {"schema-table"},
     table |-> {"table-column", "table-pk", "table-fk"},
     column |-> {"reference"},
     reference |-> {}]

\* the (visitor, fallback_nav) pairs accept_visitor is called with
VisitCalls ==
    {<<NoopDatabaseGraphVisitor, STD_VISIT_NAVIGATION>>,
     <<LeafTableVisitor, STD_VISIT_NAVIGATION>>,
     <<NoopDatabaseGraphVisitor, ReferenceOnceNavigation>>,
     <<NoopDatabaseGraphVisitor, NoNavigation>>,
     <<BackToTableVisitor, NoNavigation>>,
     <<ReferenceBackVisitor, NoNavigation>>}

DefaultScorers == <<"type", "keydq", "keyword">>

\* the lists of scorers add_fact_and_dim_scores is called with
ScorerLists == {DefaultScorers, <<"keyword", "type">>, <<"keydq">>}

----------------------------------------------------------------------------
(* Score integration.                                                      *)

\* functools.reduce(lambda a, b: a.merge(b), [c.fact_scoring for c in components])
fact_scoring(scs) ==
    LET f[i \in 1..Len(scs)] == IF i = 1 THEN scs[1].fact ELSE merge(f[i - 1], scs[i].fact)
    IN f[Len(scs)]

dimension_scoring(scs) ==
    LET f[i \in 1..Len(scs)] == IF i = 1 THEN scs[1].dim ELSE merge(f[i - 1], scs[i].dim)
    IN f[Len(scs)]

\* the tail of add_fact_and_dim_scores: both totals written to every node
set_score_attributes(gr, scs) ==
    LET fact_score == node_totals(fact_scoring(scs))
        dim_score == node_totals(dimension_scoring(scs))
    IN [gr EXCEPT !.nattr =
            [n \in DOMAIN gr.nattr |->
                Update(gr.nattr[n],
                       [fact_score |-> IF n \in DOMAIN fact_score THEN fact_score[n]
                                       ELSE -1,
                        dim_score |-> IF n \in DOMAIN dim_score THEN dim_score[n]
                                      ELSE -1])]]

\* a round of the loop that also writes the scores gathered so far
write_if_scoring(gr, vis, r) ==
    [g |-> IF vis.kind = "composite" THEN set_score_attributes(gr, r.scs) ELSE gr] @@ r

visit_round_writing_scores(gr, m, vis, fallback, scs, e) ==
    write_if_scoring(gr, vis, visit_entry(gr, m, vis, fallback, scs, e))

\* a round of the while loop of accept_visitor and all it leaves behind: the
\* graph is only read
visit_round(gr, m, vis, fallback, scs, e) ==
    [g |-> gr] @@ visit_entry(gr, m, vis, fallback, scs, e)

----------------------------------------------------------------------------
(* The analysis as a state machine.                                        *)

NoLast ==
    [from_node |-> None, to_node |-> None, callback |-> "none", follow |-> {},
     err |-> "none", by |-> "driver"]

MainInit ==
    /\ pc = "new"
    /\ md = EmptyStore
    /\ g = EmptyGraph
    /\ submodels = {}
    /\ visitor = NoopDatabaseGraphVisitor
    /\ fallback_nav = NoNavigation
    /\ stack = <<>>
    /\ scorers = <<>>
    /\ err = "none"
    /\ last = NoLast
    /\ seen = {}
    /\ trail = <<>>

IdIdle ==
    /\ idKind = "schema"
    /\ idRecs = <<>>
    /\ idOut = <<>>
    /\ idStore = EmptyDict

\* no objective has been made outside the scorers
ObjIdle ==
    /\ heap = <<>>
    /\ objs = <<>>
    /\ objOut = <<>>
    /\ objOp = [op |-> "none", target |-> "none", err |-> "none",
                 cutoff |-> [given |-> FALSE, value |-> 0]]

\* no column is being visited outside a traversal
ColIdle ==
    /\ colDefs = DEFAULT_TYPE_SCORING
    /\ colData = <<>>
    /\ colSc = <<>>

NoFile == <<>>

\* history: n counts the store operations made, loaded tells whether a load
\* or load_from_db has completed
NoStoreOp == [op |-> "none", err |-> "none", n |-> 0, loaded |-> FALSE]

\* no store operation is made outside the analysis
StoreIdle ==
    /\ file = NoFile
    /\ storeOp = NoStoreOp

Init == MainInit /\ IdIdle /\ ObjIdle /\ ColIdle /\ StoreIdle

\* DatabaseGraphMetadata.load_from_db
LoadFromDb ==
    /\ pc = "new"
    /\ \E src \in SourceAnswers : md' = load_from_db(md, src, DbName)
    /\ pc' = "loaded"
    /\ UNCHANGED <<g, submodels, visitor, fallback_nav, stack, scorers, err, last, seen, trail>>

\* what a source reports when the store of a built graph is loaded once more:
\* table u is gone and column id of table t has changed its type
ReloadAnswers ==
    {[schemas |-> <<MetadataSchemaRow(SchemaS, DbName)>>,
      tables |-> <<TableRow(TableT)>>,
      columns |-> <<ColumnRow(TableT, ColId, <<"VARCHAR">>)>>,
      pks |-> <<>>, fks |-> <<>>, types |-> <<>>],
     [schemas |-> <<>>, tables |-> <<>>, columns |-> <<>>,
      pks |-> <<>>, fks |-> <<>>, types |-> <<>>]}

\* DatabaseGraphMetadata.load_from_db once more, on the store a graph has
\* been built from; the graph keeps its reference to the store
LoadFromDbAgain ==
    /\ pc = "built"
    /\ md.has_data
    /\ \E src \in ReloadAnswers : md' = load_from_db(md, src, DbName)
    /\ pc' = "reloaded"
    /\ UNCHANGED <<g, submodels, visitor, fallback_nav, stack, scorers, err, last, seen, trail>>

\* DatabaseGraph.from_data
FromData ==
    /\ pc = "loaded"
    /\ \E include_type_nodes \in BOOLEAN :
        LET r == full_graph_factory(md, include_type_nodes)
        IN IF r.ok
           THEN g' = r.g /\ pc' = "built" /\ err' = "none"
           ELSE g' = g /\ pc' = "build_failed" /\ err' = "AssertionError"
    /\ UNCHANGED <<md, submodels, visitor, fallback_nav, stack, scorers, last, seen, trail>>

\* DatabaseGraph.get_isolated_submodels, run to the end of the generator
GetIsolatedSubmodels ==
    /\ pc = "built"
    /\ submodels' = get_isolated_submodels(g)
    /\ pc' = "extracted"
    /\ UNCHANGED <<md, g, visitor, fallback_nav, stack, scorers, err, last, seen, trail>>

\* DatabaseGraph.accept_visitor up to the while loop
AcceptVisitor ==
    /\ pc = "built"
    /\ \E call \in VisitCalls : visitor' = call[1] /\ fallback_nav' = call[2]
    /\ stack' = InitialStack(g)
    /\ pc' = "visiting"
    /\ seen' = {}
    /\ trail' = <<>>
    /\ UNCHANGED <<md, g, submodels, scorers, err, last>>

\* DatabaseGraph.add_fact_and_dim_scores up to the while loop of the
\* accept_visitor it calls
AddFactAndDimScores ==
    /\ pc = "built"
    /\ \E names \in ScorerLists :
          scorers' = [i \in 1..Len(names) |-> NewScorer(names[i])]
    /\ visitor' = CompositeColumnScoringVisitor
    /\ fallback_nav' = NoNavigation
    /\ stack' = InitialStack(g)
    /\ pc' = "scoring"
    /\ seen' = {}
    /\ trail' = <<>>
    /\ UNCHANGED <<md, g, submodels, err, last>>

\* one round of the while loop.  The callbacks' return values and the graph
\* do not depend on what was visited before, so a loop that is back at a
\* stack it has had will have it again and again: it runs forever
\* ("looping").  A walk whose stack outgrows MaxStack is not followed further
\* ("cut").
VisitStep ==
    /\ pc \in {"visiting", "scoring"}
    /\ Len(stack) > 0
    /\ seen' = seen \cup {stack}
    /\ trail' = Append(trail, stack[Len(stack)])
    /\ \E r \in {visit_round(g, md, visitor, fallback_nav, scorers, stack[Len(stack)])} :
          /\ g' = r.g
          /\ scorers' = r.scs
          /\ last' = [from_node |-> stack[Len(stack)].from_node,
                      to_node |-> stack[Len(stack)].to_node,
                      callback |-> r.callback, follow |-> r.follow,
                      err |-> r.err, by |-> r.by]
          /\ IF r.err # "none"
             THEN /\ err' = r.err
                  /\ stack' = <<>>
                  /\ pc' = IF pc = "scoring" THEN "score_raised" ELSE "visit_raised"
             ELSE IF Len(stack) - 1 + Len(r.push) > MaxStack
             THEN /\ err' = err
                  /\ stack' = <<>>
                  /\ pc' = "cut"
             ELSE /\ err' = err
                  /\ stack' = SubSeq(stack, 1, Len(stack) - 1) \o r.push
                  /\ pc' = IF stack' \in seen' THEN "looping" ELSE pc
    /\ UNCHANGED <<md, submodels, visitor, fallback_nav>>

\* accept_visitor returns: the stack is empty
VisitReturn ==
    /\ pc = "visiting"
    /\ Len(stack) = 0
    /\ pc' = "visited"
    /\ UNCHANGED <<md, g, submodels, visitor, fallback_nav, stack, scorers, err, last, seen, trail>>

\* add_fact_and_dim_scores after its traversal has returned
WriteScores ==
    /\ pc = "scoring"
    /\ Len(stack) = 0
    /\ g' = set_score_attributes(g, scorers)
    /\ pc' = "scored"
    /\ UNCHANGED <<md, submodels, visitor, fallback_nav, stack, scorers, err, last, seen, trail>>

Next ==
    \/ (LoadFromDb /\ UNCHANGED <<idVars, objVars, colVars, ioVars>>)
    \/ (FromData /\ UNCHANGED <<idVars, objVars, colVars, ioVars>>)
    \/ (LoadFromDbAgain /\ UNCHANGED <<idVars, objVars, colVars, ioVars>>)
    \/ (GetIsolatedSubmodels /\ UNCHANGED <<idVars, objVars, colVars, ioVars>>)
    \/ (AcceptVisitor /\ UNCHANGED <<idVars, objVars, colVars, ioVars>>)
    \/ (AddFactAndDimScores /\ UNCHANGED <<idVars, objVars, colVars, ioVars>>)
    \/ (VisitStep /\ UNCHANGED <<idVars, objVars, colVars, ioVars>>)
    \/ (VisitReturn /\ UNCHANGED <<idVars, objVars, colVars, ioVars>>)
    \/ (WriteScores /\ UNCHANGED <<idVars, objVars, colVars, ioVars>>)

Spec == Init /\ [][Next]_vars

----------------------------------------------------------------------------
(* Identifier functions applied to pairs of records.                       *)

IdKinds == {"schema", "table", "column", "pk", "fk", "type"}

\* Names a database can report: plain, dotted (a quoted identifier), "@".
IdNames == {<<"a">>, <<"b">>, <<"a", ".", "b">>, <<"@">>}
IdCatalogs == {<<"a">>, <<"a", ".", "b">>}
IdSchemas == {None, <<"@">>, <<"b">>}
IdTables == {<<"a">>, <<"b">>, <<"b", ".", "a">>}
IdKeyNames == {None, <<"@">>, <<"a">>}

\* The naming fields of a record of each kind; a field the kind does not
\* have is fixed.
IdRecords(kind) ==
    CASE kind = "schema" ->
           [cat : IdCatalogs, schem : IdSchemas, table : {None}, name : {None}]
      [] kind = "table" ->
           [cat : IdCatalogs, schem : IdSchemas, table : IdTables, name : {None}]
      [] kind = "column" ->
           [cat : {<<"a">>}, schem : IdSchemas, table : IdTables, name : IdNames]
      [] kind \in {"pk", "fk"} ->
           [cat : {<<"a">>}, schem : IdSchemas, table : IdTables, name : IdKeyNames]
      [] kind = "type" ->
           [cat : {None}, schem : {None}, table : {None}, name : IdNames]

\* The row-to-node functions of the store: the identifier of a record.
row_to_node_id(kind, r) ==
    CASE kind = "schema" -> schema_id(r.cat, r.schem)
      [] kind = "table" -> table_id(r.cat, r.schem, r.table)
      [] kind = "column" -> column_id(r.cat, r.schem, r.table, r.name)
      [] kind = "pk" -> pk_id(r.cat, r.schem, r.table, r.name)
      [] kind = "fk" -> fk_id(r.cat, r.schem, r.table, r.name)
      [] kind = "type" -> type_id(r.name)

IdInit ==
    /\ idKind \in IdKinds
    /\ idRecs \in IdRecords(idKind) \X IdRecords(idKind)
    /\ idOut = <<>>
    /\ idStore = EmptyDict

ComputeIds(kind) ==
    /\ idKind = kind
    /\ idOut = <<>>
    /\ idOut' = <<row_to_node_id(kind, idRecs[1]), row_to_node_id(kind, idRecs[2])>>
    /\ idStore' = DictOfRows(idOut', idRecs)
    /\ UNCHANGED <<idKind, idRecs>>

SchemaId == ComputeIds("schema")
TableId == ComputeIds("table")
ColumnId == ComputeIds("column")
PkId == ComputeIds("pk")
FkId == ComputeIds("fk")
TypeId == ComputeIds("type")

IdNext ==
    \/ (SchemaId /\ UNCHANGED <<mainVars, objVars, colVars, ioVars>>)
    \/ (TableId /\ UNCHANGED <<mainVars, objVars, colVars, ioVars>>)
    \/ (ColumnId /\ UNCHANGED <<mainVars, objVars, colVars, ioVars>>)
    \/ (PkId /\ UNCHANGED <<mainVars, objVars, colVars, ioVars>>)
    \/ (FkId /\ UNCHANGED <<mainVars, objVars, colVars, ioVars>>)
    \/ (TypeId /\ UNCHANGED <<mainVars, objVars, colVars, ioVars>>)

InitId == IdInit /\ MainInit /\ ObjIdle /\ ColIdle /\ StoreIdle

SpecId == InitId /\ [][IdNext]_vars

----------------------------------------------------------------------------
(* Objectives as the objects they are.  An objective holds the address of  *)
(* its dict, the dict holds the address of one list per node, and a change *)
(* made in place to a list or a dict is seen through every address that    *)
(* leads to it.  The heap is the sequence of these dicts and lists; the    *)
(* scores themselves are never changed once made.                          *)

\* list.sort(key=...), which is stable: q ordered by keys, ties in q's order
StableSort(q, keys) ==
    LET pos(i) ==
            Cardinality({j \in 1..Len(q) :
                            keys[j] < keys[i] \/ (keys[j] = keys[i] /\ j < i)}) + 1
    IN [p \in 1..Len(q) |-> q[CHOOSE i \in 1..Len(q) : pos(i) = p]]

\* NodeScoringObjective(name): [heap, obj] with a dict of its own
objective_new(h, name) ==
    [heap |-> Append(h, EmptyDict),
     obj |-> [name |-> name, node_scores |-> Len(h) + 1]]

\* NodeScoringObjective.add: the heap after it
objective_add(h, obj, score) ==
    IF DictHas(h[obj.node_scores], score.node_id)
    THEN [h EXCEPT ![h[obj.node_scores].val[score.node_id]] = Append(@, score)]
    ELSE [Append(h, <<score>>) EXCEPT
            ![obj.node_scores] = DictPut(@, score.node_id, Len(h) + 1)]

\* a loop of merge that puts the operand's own lists into the new dict
merge_loop_sharing_lists(h, m, from) ==
    LET f[i \in 0..Len(h[from].keys)] ==
            IF i = 0 THEN h
            ELSE IF DictHas(f[i - 1][m], h[from].keys[i])
            THEN [f[i - 1] EXCEPT
                    ![f[i - 1][m].val[h[from].keys[i]]] =
                        @ \o f[i - 1][h[from].val[h[from].keys[i]]]]
            ELSE [f[i - 1] EXCEPT
                    ![m] = DictPut(@, h[from].keys[i], h[from].val[h[from].keys[i]])]
    IN f[Len(h[from].keys)]

\* a loop of merge over the dict at address from: every list is copied
\* (scores[:]); the copy is put into the dict at address m or, for a node
\* that dict has, appended to the dict's own list
merge_loop(h, m, from) ==
    LET f[i \in 0..Len(h[from].keys)] ==
            IF i = 0 THEN h
            ELSE IF DictHas(f[i - 1][m], h[from].keys[i])
            THEN [f[i - 1] EXCEPT
                    ![f[i - 1][m].val[h[from].keys[i]]] =
                        @ \o f[i - 1][h[from].val[h[from].keys[i]]]]
            ELSE [Append(f[i - 1], f[i - 1][h[from].val[h[from].keys[i]]]) EXCEPT
                    ![m] = DictPut(@, h[from].keys[i], Len(f[i - 1]) + 1)]
    IN f[Len(h[from].keys)]

\* a merge in which a node of both operands gets the second operand's scores
objective_merge_update(h, a, b) ==
    IF a.name # b.name THEN [err |-> "ValueError", heap |-> h, obj |-> a]
    ELSE [err |-> "none",
          heap |-> LET h1 == merge_loop(Append(h, EmptyDict), Len(h) + 1, a.node_scores)
                       f[i \in 0..Len(h[b.node_scores].keys)] ==
                           IF i = 0 THEN h1
                           ELSE [Append(f[i - 1],
                                        h[h[b.node_scores].val[h[b.node_scores].keys[i]]])
                                 EXCEPT ![Len(h) + 1] =
                                     DictPut(@, h[b.node_scores].keys[i],
                                             Len(f[i - 1]) + 1)]
                   IN f[Len(h[b.node_scores].keys)],
          obj |-> [name |-> a.name, node_scores |-> Len(h) + 1]]

\* NodeScoringObjective.merge: [err, heap, obj].  The new objective's dict is
\* merged_nodes, at the first free address; its lists are copies.
objective_merge(h, a, b) ==
    IF a.name # b.name THEN [err |-> "ValueError", heap |-> h, obj |-> a]
    ELSE [err |-> "none",
          heap |-> merge_loop(merge_loop(Append(h, EmptyDict), Len(h) + 1,
                                         a.node_scores),
                              Len(h) + 1, b.node_scores),
          obj |-> [name |-> a.name, node_scores |-> Len(h) + 1]]

\* score_cutoff: None or a number
NoCutoff == [given |-> FALSE, value |-> 0]
Cutoff(v) == [given |-> TRUE, value |-> v]

ScoreValues(scores) == [j \in 1..Len(scores) |-> scores[j].score]

\* the triple get_node_scores makes for the node whose list is scores
ScoreTriple(col_id, scores) ==
    [node_id |-> col_id, total |-> SumScores(scores),
     scores |-> StableSort(scores, ScoreValues(scores))]

Totals(results) == [i \in 1..Len(results) |-> results[i].total]

\* the loop of get_node_scores over the dict d: the triples that pass the cutoff
collect_results(h, d, score_cutoff) ==
    LET f[i \in 0..Len(d.keys)] ==
            IF i = 0 THEN <<>>
            ELSE IF score_cutoff.given
                    /\ SumScores(h[d.val[d.keys[i]]]) < score_cutoff.value
            THEN f[i - 1]
            ELSE Append(f[i - 1], ScoreTriple(d.keys[i], h[d.val[d.keys[i]]]))
    IN f[Len(d.keys)]

\* a get_node_scores that returns the triples in the dict's order
get_node_scores_unsorted(h, obj, score_cutoff) ==
    [heap |-> h, results |-> collect_results(h, h[obj.node_scores], score_cutoff)]

\* NodeScoringObjective.get_node_scores: [heap, results]; the lists are
\* copied before they are sorted, so the heap is the heap before
get_node_scores(h, obj, score_cutoff) ==
    [heap |-> h,
     results |-> StableSort(collect_results(h, h[obj.node_scores], score_cutoff),
                            Totals(collect_results(h, h[obj.node_scores],
                                                   score_cutoff)))]

\* what an objective has recorded: node -> its scores in recorded order
Recorded(h, obj) ==
    [keys |-> h[obj.node_scores].keys,
     val |-> [k \in KeySet(h[obj.node_scores]) |-> h[h[obj.node_scores].val[k]]]]

MaxAdds == 2

ObjectiveNames == {"fact scoring", "dimension scoring"}

\* the scores the operands are made of
ScoreUniverse ==
    {NodeScore(<<"x">>, SCORE_GOOD, "good"), NodeScore(<<"x">>, SCORE_NORMAL, "normal"),
     NodeScore(<<"y">>, SCORE_NORMAL, "normal")}

AddSeqs == UNION {[1..n -> ScoreUniverse] : n \in 0..MaxAdds}

Cutoffs == {NoCutoff, Cutoff(150)}

\* the heap after the add() calls of adds on obj
after_adds(h, obj, adds) ==
    LET f[i \in 0..Len(adds)] ==
            IF i = 0 THEN h ELSE objective_add(f[i - 1], obj, adds[i])
    IN f[Len(adds)]

\* two objectives A and B, each made empty and then filled by add()
two_objectives(addsA, addsB, nameB) ==
    LET a == objective_new(<<>>, "fact scoring")
        b == objective_new(after_adds(a.heap, a.obj, addsA), nameB)
    IN [heap |-> after_adds(b.heap, b.obj, addsB), objs |-> [A |-> a.obj, B |-> b.obj]]

ObjInit ==
    /\ \E addsA \in AddSeqs, addsB \in AddSeqs, nameB \in ObjectiveNames :
          /\ heap = two_objectives(addsA, addsB, nameB).heap
          /\ objs = two_objectives(addsA, addsB, nameB).objs
    /\ objOut = <<>>
    /\ objOp = [op |-> "init", target |-> "none", err |-> "none", cutoff |-> NoCutoff]

\* M = A.merge(B)
Merge ==
    /\ objOp.op = "init"
    /\ \E r \in {objective_merge(heap, objs.A, objs.B)} :
          /\ heap' = r.heap
          /\ objs' = IF r.err = "none" THEN [M |-> r.obj] @@ objs ELSE objs
          /\ objOp' = [op |-> "merge", target |-> "M", err |-> r.err,
                       cutoff |-> NoCutoff]
    /\ UNCHANGED objOut

\* add() on A, on B or on the merged objective
Add ==
    /\ objOp.op = "merge"
    /\ objOp.err = "none"
    /\ \E t \in DOMAIN objs, score \in ScoreUniverse :
          /\ heap' = objective_add(heap, objs[t], score)
          /\ objOp' = [op |-> "add", target |-> t, err |-> "none", cutoff |-> NoCutoff]
    /\ UNCHANGED <<objs, objOut>>

\* get_node_scores on one of the objectives
GetNodeScores ==
    /\ objOp.op \in {"init", "merge"}
    /\ \E t \in DOMAIN objs, score_cutoff \in Cutoffs :
          \E r \in {get_node_scores(heap, objs[t], score_cutoff)} :
              /\ heap' = r.heap
              /\ objOut' = r.results
              /\ objOp' = [op |-> "get_node_scores", target |-> t, err |-> "none",
                           cutoff |-> score_cutoff]
    /\ UNCHANGED objs

ObjNext ==
    \/ (Merge /\ UNCHANGED <<idVars, mainVars, colVars, ioVars>>)
    \/ (Add /\ UNCHANGED <<idVars, mainVars, colVars, ioVars>>)
    \/ (GetNodeScores /\ UNCHANGED <<idVars, mainVars, colVars, ioVars>>)

InitObj == ObjInit /\ MainInit /\ IdIdle /\ ColIdle /\ StoreIdle

SpecObj == InitObj /\ [][ObjNext]_vars

----------------------------------------------------------------------------
(* One visit_column of the type scorer or of the keyword scorer, on a new  *)
(* scorer.                                                                 *)

\* a definition in which INT is dimension-viable, fact-viable and
\* fact-disqualifying at once
CustomTypeScoring ==
    TypeScoringDefinition((<<"INT">> :> 50) @@ (<<"DATE">> :> 60),
                          (<<"INT">> :> 70) @@ (<<"DECIMAL">> :> 30),
                          {<<"INT">>, <<"BLOB">>})

ColTypes ==
    {<<"VARCHAR">>, <<"TEXT">>, <<"BIT">>, <<"DATE">>, <<"DECIMAL">>, <<"INT">>,
     <<"BLOB">>, <<"GEOMETRY">>}

\* column names, each with the lower-case words _db_identifier_to_lc_words
\* returns for it
ColNames == <<
    [name |-> <<"o", "r", "d", "e", "r", "_", "i", "d">>,
     words |-> <<<<"o", "r", "d", "e", "r">>, <<"i", "d">>>>],
    [name |-> <<"O", "r", "d", "e", "r", "A", "m", "o", "u", "n", "t">>,
     words |-> <<<<"o", "r", "d", "e", "r">>, <<"a", "m", "o", "u", "n", "t">>>>],
    [name |-> <<"p", "r", "i", "c", "e", "_", "q", "t", "y">>,
     words |-> <<<<"p", "r", "i", "c", "e">>, <<"q", "t", "y">>>>],
    [name |-> <<"s", "a", "l", "e", "_", "p", "r", "i", "c", "e", "_", "i", "d">>,
     words |-> <<<<"s", "a", "l", "e">>, <<"p", "r", "i", "c", "e">>, <<"i", "d">>>>],
    [name |-> <<"P", "r", "i", "c", "e", "C", "o", "s", "t", "R", "a", "t", "e">>,
     words |-> <<<<"p", "r", "i", "c", "e">>, <<"c", "o", "s", "t">>, <<"r", "a", "t", "e">>>>],
    [name |-> <<"p", "r", "i", "c", "e", "_", "p", "r", "i", "c", "e">>,
     words |-> <<<<"p", "r", "i", "c", "e">>, <<"p", "r", "i", "c", "e">>>>],
    [name |-> <<"i", "d", "_", "p", "r", "i", "c", "e">>,
     words |-> <<<<"i", "d">>, <<"p", "r", "i", "c", "e">>>>],
    [name |-> <<"O", "r", "d", "e", "r", "I", "D">>,
     words |-> <<<<"o", "r", "d", "e", "r">>, <<"i", "d">>>>],
    [name |-> <<"u", "n", "i", "t", "_", "c", "o", "s", "t", "_">>,
     words |-> <<<<"u", "n", "i", "t">>, <<"c", "o", "s", "t">>, <<>>>>],
    [name |-> <<"p", "r", "i", "c", "e">>,
     words |-> <<<<"p", "r", "i", "c", "e">>>>],
    [name |-> <<"i", "d">>,
     words |-> <<<<"i", "d">>>>],
    [name |-> <<"p", "r", "i", "c", "e", "c", "o", "s", "t">>,
     words |-> <<<<"p", "r", "i", "c", "e", "c", "o", "s", "t">>>>],
    [name |-> <<"x", "p", "r", "i", "c", "e">>,
     words |-> <<<<"x", "p", "r", "i", "c", "e">>>>],
    [name |-> <<"n", "a", "m", "e">>,
     words |-> <<<<"n", "a", "m", "e">>>>],
    [name |-> <<"o", "r", "d", "e", "r", "A", "m", "o", "u", "n", "t">>,
     words |-> <<<<"a", "m", "o", "u", "n", "t">>>>] >>

ColNameSet == {ColNames[i].name : i \in 1..Len(ColNames)}

ColInit ==
    /\ colDefs \in {DEFAULT_TYPE_SCORING, CustomTypeScoring}
    /\ colData \in {ColumnRow(TableT, n, t) : n \in ColNameSet, t \in ColTypes}
    /\ colSc = <<>>

\* the id of the column under visit
ColIdOf(column_data) ==
    column_id(column_data.table_cat, column_data.table_schem, column_data.table_name,
              column_data.column_name)

\* TypeBasedColumnScoring.visit_column
TypeVisitColumn ==
    /\ colSc = <<>>
    /\ colSc' = categorize(colDefs,
                           called(NewScorer("type"), "visit_column", ColIdOf(colData),
                                  None),
                           ColIdOf(colData), colData)
    /\ UNCHANGED <<colDefs, colData>>

\* KeywordBasedColumnScoring.visit_column
KeywordVisitColumn ==
    /\ colSc = <<>>
    /\ colSc' = keyword_visit_column(called(NewScorer("keyword"), "visit_column",
                                            ColIdOf(colData), None),
                                     ColIdOf(colData), colData)
    /\ UNCHANGED <<colDefs, colData>>

ColNext ==
    \/ (TypeVisitColumn /\ UNCHANGED <<idVars, mainVars, objVars, ioVars>>)
    \/ (KeywordVisitColumn /\ UNCHANGED <<idVars, mainVars, objVars, ioVars>>)

InitCol == ColInit /\ MainInit /\ IdIdle /\ ObjIdle /\ StoreIdle

SpecCol == InitCol /\ [][ColNext]_vars

----------------------------------------------------------------------------
(* Store operations: load_from_db from a source that may raise, dump to    *)
(* and load from the bundle file.                                          *)

\* a dump that does not look at _has_data
dump_unchecked(m, f) ==
    [err |-> "none",
     file |-> <<m.schemas, m.tables, m.columns, m.pks, m.fks, m.types>>,
     md |-> m]

\* DatabaseGraphMetadata.dump with f in the file: [err, file, md]
dump(m, f) ==
    IF m.has_data = FALSE
    THEN [err |-> "ValueError", file |-> f, md |-> m]
    ELSE [err |-> "none",
          file |-> <<m.schemas, m.tables, m.columns, m.pks, m.fks, m.types>>,
          md |-> m]

\* DatabaseGraphMetadata.load of the file holding f: [err, md]; open raises
\* when there is no file, before anything is assigned
load(m, f) ==
    IF f = NoFile
    THEN [err |-> "FileNotFoundError", md |-> m]
    ELSE [err |-> "none",
          md |-> create_indexes(
                    [m EXCEPT !.schemas = f[1], !.tables = f[2], !.columns = f[3],
                              !.pks = f[4], !.fks = f[5], !.types = f[6],
                              !.has_data = TRUE])]

\* DatabaseGraphMetadata.is_empty
is_empty(m) == ~m.has_data

\* the six reads of load_from_db, in order
LoadKinds == <<"schemas", "tables", "columns", "pks", "fks", "types">>

\* load_from_db when the source raises while the kind-th mapping is being
\* read: the assignments before it have been made, nothing after it has
load_from_db_interrupted(m, src, dbname, kind) ==
    [m EXCEPT !.schemas = IF kind > 1 THEN load_schemas(src.schemas, dbname) ELSE @,
              !.tables = IF kind > 2 THEN load_tables(src.tables) ELSE @,
              !.columns = IF kind > 3 THEN load_columns(src.columns) ELSE @,
              !.pks = IF kind > 4 THEN load_pks(src.pks) ELSE @,
              !.fks = IF kind > 5 THEN load_fks(src.fks) ELSE @]

MaxStoreOps == 3

\* what the source answers in the store operations: the two catalogues of
\* ReloadAnswers and the full catalogue with two foreign keys
StoreAnswers ==
    ReloadAnswers
    \cup {[schemas |-> <<MetadataSchemaRow(SchemaS, DbName)>>,
           tables |-> <<TableRow(TableT), TableRow(TableU), TableRow(TableO)>>,
           columns |-> <<ColumnRow(TableT, ColId, <<"INT">>),
                         ColumnRow(TableT, ColQty, <<"DECIMAL">>),
                         ColumnRow(TableU, ColId, <<"INT">>),
                         ColumnRow(TableO, ColName, <<"VARCHAR">>)>>,
           pks |-> <<PkRow(TableT, ColId, 1, <<"p">>), PkRow(TableU, ColId, 1, None)>>,
           fks |-> Pick(FkRowUniverse, {1, 2}),
           types |-> <<MetadataTypeInfoRow(<<"INT">>), MetadataTypeInfoRow(<<"BLOB">>)>>]}

\* a new store; the bundle file is absent or was left by an earlier dump
StoreInit ==
    /\ storeOp = NoStoreOp
    /\ file \in {NoFile}
                \cup {dump(load_from_db(EmptyStore, src, DbName), NoFile).file :
                        src \in StoreAnswers}

StoreOpDone(op, error) ==
    [op |-> op, err |-> error, n |-> storeOp.n + 1,
     loaded |-> storeOp.loaded \/ (op \in {"load", "load_from_db"} /\ error = "none")]

\* load_from_db on a source that answers all six reads
StoreLoadFromDb ==
    /\ storeOp.n < MaxStoreOps
    /\ \E src \in StoreAnswers : md' = load_from_db(md, src, DbName)
    /\ storeOp' = StoreOpDone("load_from_db", "none")
    /\ UNCHANGED file

\* load_from_db on a source that raises in one of the six reads
StoreLoadFromDbRaises ==
    /\ storeOp.n < MaxStoreOps
    /\ \E src \in StoreAnswers : \E kind \in 1..Len(LoadKinds) :
          md' = load_from_db_interrupted(md, src, DbName, kind)
    /\ storeOp' = StoreOpDone("load_from_db", "SourceError")
    /\ UNCHANGED file

StoreLoad ==
    /\ storeOp.n < MaxStoreOps
    /\ md' = load(md, file).md
    /\ storeOp' = StoreOpDone("load", load(md, file).err)
    /\ UNCHANGED file

StoreDump ==
    /\ storeOp.n < MaxStoreOps
    /\ md' = dump(md, file).md
    /\ file' = dump(md, file).file
    /\ storeOp' = StoreOpDone("dump", dump(md, file).err)

StoreNext ==
    \/ (StoreLoadFromDb /\ UNCHANGED <<idVars, objVars, colVars, analysisVars>>)
    \/ (StoreLoadFromDbRaises /\ UNCHANGED <<idVars, objVars, colVars, analysisVars>>)
    \/ (StoreLoad /\ UNCHANGED <<idVars, objVars, colVars, analysisVars>>)
    \/ (StoreDump /\ UNCHANGED <<idVars, objVars, colVars, analysisVars>>)

InitStore == StoreInit /\ MainInit /\ IdIdle /\ ObjIdle /\ ColIdle

SpecStore == InitStore /\ [][StoreNext]_vars

----------------------------------------------------------------------------
(* Properties.                                                             *)

\* a graph has been returned by from_data
Built == pc \notin {"new", "loaded", "build_failed"}

Rows(d) == UNION {{d.val[k][i] : i \in 1..Len(d.val[k])} : k \in KeySet(d)}
FkRows == Rows(md.fks)
PkRows == Rows(md.pks)
TableRows == {md.tables.val[k] : k \in KeySet(md.tables)}
ColumnRows == {md.columns.val[k] : k \in KeySet(md.columns)}

fk_column_of(row) ==
    column_id(row.fktable_cat, row.fktable_schem, row.fktable_name, row.fkcolumn_name)
pk_column_of(row) ==
    column_id(row.pktable_cat, row.pktable_schem, row.pktable_name, row.pkcolumn_name)
fk_table_of(row) == table_id(row.fktable_cat, row.fktable_schem, row.fktable_name)
pk_table_of(row) == table_id(row.pktable_cat, row.pktable_schem, row.pktable_name)

\* C1: two records of one kind get the same identifier exactly when their
\* naming fields are all equal, and the mapping loaded from them has one entry
\* per distinct record.
C1_IdentifierBijection ==
    idOut # <<>> =>
        /\ (idOut[1] = idOut[2]) <=> (idRecs[1] = idRecs[2])
        /\ Len(idStore.keys) = Cardinality({idRecs[1], idRecs[2]})

\* C2: every column pair of every foreign-key row of the store has its
\* 'reference' edge f->p and its 'reference-by' edge p->f in the built graph,
\* both carrying the row's attributes.
C2_ReferenceEdgesBothWays ==
    Built =>
        \A row \in FkRows :
            /\ HasEdge(g, fk_column_of(row), pk_column_of(row))
            /\ g.eattr[<<fk_column_of(row), pk_column_of(row)>>]
                    = EdgeAttrs("reference", row)
            /\ HasEdge(g, pk_column_of(row), fk_column_of(row))
            /\ g.eattr[<<pk_column_of(row), fk_column_of(row)>>]
                    = EdgeAttrs("reference-by", row)

\* every record's parent and every key's tables and columns are in the store
StructurallyValid ==
    /\ \A t \in TableRows : DictHas(md.schemas, schema_id(t.table_cat, t.table_schem))
    /\ \A c \in ColumnRows : DictHas(md.tables, table_row_to_node(c))
    /\ \A k \in PkRows : /\ DictHas(md.tables, table_row_to_node(k))
                         /\ DictHas(md.columns, column_row_to_node(k))
    /\ \A row \in FkRows : /\ DictHas(md.tables, fk_table_of(row))
                           /\ DictHas(md.tables, pk_table_of(row))
                           /\ DictHas(md.columns, fk_column_of(row))
                           /\ DictHas(md.columns, pk_column_of(row))

\* C3: from_data returns a graph only for a store without a missing parent or
\* a missing key table or column, and every node of a returned graph, flagged
\* placeholder types apart, is a store record and carries a node_type.
C3_NoGraphFromBrokenStore ==
    Built =>
        /\ StructurallyValid
        /\ \A n \in NodeSet(g) :
              \/ HasAttr(g.nattr[n], "wtftype")
              \/ (HasAttr(g.nattr[n], "node_type") /\ DictHas(md.node_idx, n))

TableIds == KeySet(md.tables)
TablesOf(sm) == sm \cap TableIds
ColumnsOfTable(t) ==
    {c \in KeySet(md.columns) : table_row_to_node(md.columns.val[c]) = t}
PksOfTable(t) ==
    {k \in KeySet(md.pks) : table_row_to_node(md.pks.val[k][1]) = t}
FksOfTable(t) ==
    {k \in KeySet(md.fks) : fk_table_of(md.fks.val[k][1]) = t}
OwnNodes(t) == {t} \cup ColumnsOfTable(t) \cup PksOfTable(t) \cup FksOfTable(t)

\* t is the referencing or the referenced table of no foreign key
Orphan(t) == \A row \in FkRows : fk_table_of(row) # t /\ pk_table_of(row) # t

\* the original statement of C4: no sub-model holds an orphan table or
\* anything of it, and every sub-model is a foreign-key cluster
C4_OrphanInNoSubmodel ==
    pc = "extracted" =>
        /\ \A t \in TableIds : Orphan(t) => \A sm \in submodels : OwnNodes(t) \cap sm = {}
        /\ \A sm \in submodels : \E t \in TablesOf(sm) : ~Orphan(t)

\* C4: an orphan table with at least one column is, with its columns and
\* primary key, in exactly one sub-model, which holds no other table; an
\* orphan table without columns is in none; every sub-model holds a table.
C4_OrphanAloneOrAbsent ==
    pc = "extracted" =>
        /\ \A t \in TableIds :
              Orphan(t) =>
                  IF ColumnsOfTable(t) # {}
                  THEN /\ Cardinality({sm \in submodels : t \in sm}) = 1
                       /\ \A sm \in submodels :
                              t \in sm => TablesOf(sm) = {t} /\ OwnNodes(t) \subseteq sm
                  ELSE \A sm \in submodels : t \notin sm
        /\ \A sm \in submodels : TablesOf(sm) # {}

C4_Witness ==
    /\ pc = "extracted"
    /\ \E t \in TableIds :
          Orphan(t) /\ ColumnsOfTable(t) # {} /\ \E sm \in submodels : t \in sm
    /\ \E t \in TableIds : Orphan(t) /\ ColumnsOfTable(t) = {}

\* one foreign key between two tables, in either direction
FkStep ==
    {<<fk_table_of(row), pk_table_of(row)>> : row \in FkRows}
    \cup {<<pk_table_of(row), fk_table_of(row)>> : row \in FkRows}

RECURSIVE FkChains(_)
\* the pairs of tables linked by a chain of foreign keys
FkChains(rel) ==
    LET next == rel \cup {<<x[1][1], x[2][2]>> : x \in {y \in rel \X rel : y[1][2] = y[2][1]}}
    IN IF next = rel THEN rel ELSE FkChains(next)

FkLinked(t1, t2) == <<t1, t2>> \in FkChains(FkStep)

\* C5: from a structurally valid store, two tables linked by a chain of foreign
\* keys are in one sub-model together with all their column, pk and fk nodes,
\* and two tables not so linked are in no common sub-model.
C5_ClusterIsOneSubmodel ==
    (pc = "extracted" /\ StructurallyValid) =>
        \A t1 \in TableIds : \A t2 \in TableIds \ {t1} :
            IF FkLinked(t1, t2)
            THEN \E sm \in submodels : OwnNodes(t1) \cup OwnNodes(t2) \subseteq sm
            ELSE \A sm \in submodels : ~(t1 \in sm /\ t2 \in sm)

\* a one-directional foreign key links two tables; a third table stands apart
C5_Witness ==
    /\ pc = "extracted" /\ StructurallyValid
    /\ \E t1 \in TableIds : \E t2 \in TableIds \ {t1} :
          /\ FkLinked(t1, t2)
          /\ \A row \in FkRows : fk_table_of(row) = t1 /\ pk_table_of(row) = t2
          /\ \E sm \in submodels : {t1, t2} \subseteq sm
    /\ \E t3 \in TableIds : Orphan(t3) /\ \E sm \in submodels : t3 \in sm

\* C6: two sub-models of one call share no table, column, pk or fk node.
C6_SubmodelsDisjoint ==
    pc = "extracted" =>
        \A sm1 \in submodels : \A sm2 \in submodels \ {sm1} :
            \A n \in sm1 \cap sm2 : n[1] \notin {"table", "column", "pk", "fk"}

\* two sub-models that do share a context node
C6_Witness ==
    /\ pc = "extracted"
    /\ \E sm1 \in submodels : \E sm2 \in submodels \ {sm1} : sm1 \cap sm2 # {}

\* C7: on a graph from a structurally valid store, the loop of accept_visitor
\* with the no-op visitor and STD_VISIT_NAVIGATION never comes back to a stack
\* it has had: it does not run forever, whatever the foreign keys.
C7_StdNavigationTerminates ==
    (/\ visitor = NoopDatabaseGraphVisitor
     /\ fallback_nav = STD_VISIT_NAVIGATION
     /\ StructurallyValid)
        => pc # "looping"

\* the round just made would step straight back: the follow set at
\* last.to_node holds the kind of an out-edge to last.from_node
StepsBack ==
    /\ last.from_node # None
    /\ HasEdge(g, last.to_node, last.from_node)
    /\ g.eattr[<<last.to_node, last.from_node>>].edge_type \in last.follow

\* C8: a round of the driver raises VisitError exactly when the edges it is
\* to follow lead straight back to the node the entry came from.
C8_VisitErrorIffStepsBack ==
    (pc \in {"visiting", "visit_raised", "visited"} /\ last # NoLast) =>
        (StepsBack <=> last.err = "VisitError")

\* C9: from the call of add_fact_and_dim_scores to the end of its traversal,
\* a raise included, the graph is the graph before the call.
C9_RaiseWritesNothing ==
    [][pc' \in {"scoring", "score_raised"} => g' = g]_vars

\* the traversal has raised with scores already gathered, none of them written
C9_Witness ==
    /\ pc = "score_raised"
    /\ DOMAIN node_totals(fact_scoring(scorers)) # {}
    /\ \A n \in NodeSet(g) : ~HasAttr(g.nattr[n], "fact_score")

KeyColumns ==
    {column_row_to_node(k) : k \in PkRows}
    \cup {fk_column_of(row) : row \in FkRows}
    \cup {pk_column_of(row) : row \in FkRows}

\* C10: after scoring a graph from a structurally valid store, every member
\* column of a primary key and every referencing or referenced column of a
\* foreign key has a fact_score of at most -99000.
C10_KeyColumnsDisqualified ==
    (pc = "scored" /\ StructurallyValid) =>
        \A c \in KeyColumns : g.nattr[c].fact_score <= -99000

\* C11: while add_fact_and_dim_scores traverses a graph from a structurally
\* valid store, no callback of the type, key-disqualification or keyword
\* scorer raises: a traversal that raised did not raise inside a callback.
C11_ScorerCallbacksNeverRaise ==
    (pc = "score_raised" /\ StructurallyValid) => last.by # "callback"

\* the reasons of the NodeDisqualified scores the three scorers record
DqReasons ==
    {"type-dq", "pk-member", "referenced", "foreign-key", "keyword-dq",
     "keyword-dq-name"}

\* the scores scorer i has recorded for node n in its fact objective
FactScoresOf(i, n) ==
    IF DictHas(scorers[i].fact.node_scores, n)
    THEN scorers[i].fact.node_scores.val[n]
    ELSE <<>>

\* the scores scorer i has recorded for node n in its dimension objective
DimScoresOf(i, n) ==
    IF DictHas(scorers[i].dim.node_scores, n)
    THEN scorers[i].dim.node_scores.val[n]
    ELSE <<>>

\* some scorer has recorded a fact disqualification for n
FactDisqualified(n) ==
    \E i \in 1..Len(scorers) :
        \E j \in 1..Len(FactScoresOf(i, n)) : FactScoresOf(i, n)[j].reason \in DqReasons

\* the sum of the positive fact scores recorded for n by all scorers
PositiveFactSum(n) ==
    LET pos(q) == [j \in 1..Len(q) |-> IF q[j].score > 0 THEN q[j] ELSE NodeScore(n, 0, "")]
        f[i \in 0..Len(scorers)] ==
            IF i = 0 THEN 0 ELSE f[i - 1] + SumScores(pos(FactScoresOf(i, n)))
    IN f[Len(scorers)]

\* C12: once add_fact_and_dim_scores has returned, a column with a recorded
\* fact disqualification has a fact_score of at most 0, whatever positive
\* scores it has as well.
C12_DisqualificationDominates ==
    pc = "scored" =>
        \A n \in NodeSet(g) : FactDisqualified(n) => g.nattr[n].fact_score <= 0

\* a scored column that is disqualified and has positive type and keyword
\* scores as well
C12_Witness ==
    /\ pc = "scored"
    /\ \E n \in NodeSet(g) :
          /\ FactDisqualified(n)
          /\ PositiveFactSum(n) >= 2 * SCORE_GOOD
          /\ g.nattr[n].fact_score <= 0

\* the sum of the scores all scorers have recorded for n, per objective
FactTotal(n) ==
    LET f[i \in 0..Len(scorers)] ==
            IF i = 0 THEN 0 ELSE f[i - 1] + SumScores(FactScoresOf(i, n))
    IN f[Len(scorers)]

DimTotal(n) ==
    LET f[i \in 0..Len(scorers)] ==
            IF i = 0 THEN 0 ELSE f[i - 1] + SumScores(DimScoresOf(i, n))
    IN f[Len(scorers)]

FactRecorded(n) == \E i \in 1..Len(scorers) : Len(FactScoresOf(i, n)) > 0
DimRecorded(n) == \E i \in 1..Len(scorers) : Len(DimScoresOf(i, n)) > 0

\* C13: once add_fact_and_dim_scores has returned, every node has a
\* fact_score and a dim_score; each is the sum of the scores all scorers
\* recorded for the node in that objective, and it is -1 exactly for the
\* nodes with no recorded score there.
C13_TotalsWrittenToEveryNode ==
    pc = "scored" =>
        \A n \in NodeSet(g) :
            /\ HasAttr(g.nattr[n], "fact_score") /\ HasAttr(g.nattr[n], "dim_score")
            /\ FactRecorded(n) => g.nattr[n].fact_score = FactTotal(n)
            /\ DimRecorded(n) => g.nattr[n].dim_score = DimTotal(n)
            /\ (g.nattr[n].fact_score = -1) <=> ~FactRecorded(n)
            /\ (g.nattr[n].dim_score = -1) <=> ~DimRecorded(n)

\* a scored graph with a DECIMAL column whose type and keyword scores add up
\* to 400 and which has no dimension score, and a column with a dimension
\* score
C13_Witness ==
    /\ pc = "scored"
    /\ \E n \in NodeSet(g) :
          /\ HasAttr(g.nattr[n], "type_name")
          /\ g.nattr[n].type_name = <<"DECIMAL">>
          /\ \E i \in 1..Len(scorers) : \E k \in 1..Len(scorers) :
                i # k /\ Len(FactScoresOf(i, n)) > 0 /\ Len(FactScoresOf(k, n)) > 0
          /\ g.nattr[n].fact_score = 2 * SCORE_GOOD
          /\ g.nattr[n].dim_score = -1
    /\ \E n \in NodeSet(g) : DimRecorded(n) /\ g.nattr[n].dim_score = SCORE_GOOD

\* C14: every callback the driver invokes on the composite scorer, and
\* which returns, has been invoked exactly once on every component, with the
\* node and edge it was invoked with.
C14_CompositeBroadcasts ==
    [][(pc = "scoring" /\ last'.callback # "none" /\ last'.err = "none") =>
          \A i \in 1..Len(scorers) :
              scorers'[i].calls =
                  Append(scorers[i].calls,
                         Call(last'.callback, last'.to_node, last'.from_node))]_vars

ObjNodes == {score.node_id : score \in ScoreUniverse}

\* the scores the objective with handle t has recorded for node n
ScoresIn(h, o, t, n) ==
    IF t \in DOMAIN o /\ DictHas(h[o[t].node_scores], n)
    THEN h[h[o[t].node_scores].val[n]]
    ELSE <<>>

\* how often the score is in the list
Count(q, score) == Cardinality({j \in 1..Len(q) : q[j] = score})

\* the positions of node n's triples in what get_node_scores returned
TriplesOf(n) == {i \in 1..Len(objOut) : objOut[i].node_id = n}

\* C15: for A and B of one name, A.merge(B).get_node_scores() reports for
\* every node one triple whose scores are the multiset union of the node's
\* scores in A and in B and whose total is the sum of the two totals, and no
\* triple for a node neither has recorded.
C15_MergeIsMultisetUnion ==
    (objOp.op = "get_node_scores" /\ objOp.target = "M" /\ ~objOp.cutoff.given) =>
        \A n \in ObjNodes :
            IF Len(ScoresIn(heap, objs, "A", n)) + Len(ScoresIn(heap, objs, "B", n)) = 0
            THEN TriplesOf(n) = {}
            ELSE /\ Cardinality(TriplesOf(n)) = 1
                 /\ \A i \in TriplesOf(n) :
                       /\ \A score \in ScoreUniverse :
                             Count(objOut[i].scores, score) =
                                 Count(ScoresIn(heap, objs, "A", n), score)
                                 + Count(ScoresIn(heap, objs, "B", n), score)
                       /\ Len(objOut[i].scores) =
                             Len(ScoresIn(heap, objs, "A", n))
                             + Len(ScoresIn(heap, objs, "B", n))
                       /\ objOut[i].total =
                             SumScores(ScoresIn(heap, objs, "A", n))
                             + SumScores(ScoresIn(heap, objs, "B", n))

\* the merged objective has been read; one node has scores in both operands,
\* the other in one operand only
C15_Witness ==
    /\ objOp.op = "get_node_scores" /\ objOp.target = "M" /\ ~objOp.cutoff.given
    /\ Len(ScoresIn(heap, objs, "A", <<"x">>)) = 2
    /\ Len(ScoresIn(heap, objs, "B", <<"x">>)) = 1
    /\ Len(ScoresIn(heap, objs, "A", <<"y">>)) = 0
    /\ Len(ScoresIn(heap, objs, "B", <<"y">>)) = 1
    /\ Len(objOut) = 2

\* the addresses an objective's state lives at: its dict and its lists
AddressesOf(h, obj) ==
    {obj.node_scores} \cup {h[obj.node_scores].val[k] : k \in KeySet(h[obj.node_scores])}

\* C16: A.merge(B) leaves what A and B have recorded as it was, raises
\* exactly when the names differ and then changes nothing at all, and
\* returns an objective none of whose dict and lists is one of A's or B's;
\* an add() on A, on B or on the merged objective changes what that
\* objective has recorded and no other.
C16_MergeSharesNothing ==
    [][/\ (objOp.op = "init" /\ objOp'.op = "merge") =>
            /\ objs'.A = objs.A /\ objs'.B = objs.B
            /\ Recorded(heap', objs'.A) = Recorded(heap, objs.A)
            /\ Recorded(heap', objs'.B) = Recorded(heap, objs.B)
            /\ (objOp'.err = "ValueError") <=> (objs.A.name # objs.B.name)
            /\ objOp'.err = "ValueError" => (heap' = heap /\ objs' = objs)
            /\ objOp'.err = "none" =>
                  /\ objs'.M.name = objs.A.name
                  /\ AddressesOf(heap', objs'.M)
                        \cap (AddressesOf(heap', objs'.A)
                              \cup AddressesOf(heap', objs'.B)) = {}
       /\ (objOp.op = "merge" /\ objOp'.op = "add") =>
            /\ objs' = objs
            /\ \A t \in DOMAIN objs \ {objOp'.target} :
                  Recorded(heap', objs[t]) = Recorded(heap, objs[t])
            /\ Recorded(heap', objs[objOp'.target]) # Recorded(heap, objs[objOp'.target])
      ]_vars

\* a score has been added to the merged objective for a node that both
\* operands have scores for
C16_Witness ==
    /\ objOp.op = "add" /\ objOp.target = "M"
    /\ \E n \in ObjNodes :
          /\ Len(ScoresIn(heap, objs, "A", n)) > 0
          /\ Len(ScoresIn(heap, objs, "B", n)) > 0
          /\ Len(ScoresIn(heap, objs, "M", n))
                = Len(ScoresIn(heap, objs, "A", n)) + Len(ScoresIn(heap, objs, "B", n)) + 1

\* what get_node_scores(objOp.cutoff) on objOp.target has to return
ResultAsSpecified ==
    /\ \A n \in ObjNodes :
          IF /\ Len(ScoresIn(heap, objs, objOp.target, n)) > 0
             /\ objOp.cutoff.given =>
                    SumScores(ScoresIn(heap, objs, objOp.target, n)) >= objOp.cutoff.value
          THEN /\ Cardinality(TriplesOf(n)) = 1
               /\ \A i \in TriplesOf(n) :
                     /\ objOut[i].total = SumScores(ScoresIn(heap, objs, objOp.target, n))
                     /\ Len(objOut[i].scores) = Len(ScoresIn(heap, objs, objOp.target, n))
                     /\ \A score \in ScoreUniverse :
                           Count(objOut[i].scores, score) =
                               Count(ScoresIn(heap, objs, objOp.target, n), score)
          ELSE TriplesOf(n) = {}
    /\ \A i \in 1..Len(objOut) : \A j \in 1..Len(objOut) :
          i < j => objOut[i].total <= objOut[j].total
    /\ \A i \in 1..Len(objOut) :
          \A j \in 1..Len(objOut[i].scores) : \A k \in 1..Len(objOut[i].scores) :
              j < k => objOut[i].scores[j].score <= objOut[i].scores[k].score

\* C17: get_node_scores(cutoff) returns one triple for exactly the recorded
\* nodes whose total is at least the cutoff (all of them without a cutoff),
\* in ascending order of total, each with the node's scores in ascending
\* order, and leaves what every objective has recorded, and its order, as
\* it was.
C17_GetNodeScores ==
    [][(objOp.op # "get_node_scores" /\ objOp'.op = "get_node_scores") =>
          /\ ResultAsSpecified'
          /\ objs' = objs
          /\ \A t \in DOMAIN objs : Recorded(heap', objs[t]) = Recorded(heap, objs[t])
      ]_vars

\* a read with a cutoff that drops one of two recorded nodes, of an
\* objective whose lists were recorded in descending order
C17_Witness ==
    /\ objOp.op = "get_node_scores" /\ objOp.cutoff.given
    /\ Len(objOut) = 1
    /\ Len(ScoresIn(heap, objs, objOp.target, <<"y">>)) > 0
    /\ Len(ScoresIn(heap, objs, objOp.target, <<"x">>)) = 2
    /\ ScoresIn(heap, objs, objOp.target, <<"x">>)[1].score
          > ScoresIn(heap, objs, objOp.target, <<"x">>)[2].score
    /\ objOut[1].scores[1].score < objOut[1].scores[2].score

\* the scores the visited scorer has recorded for node n
ColFact(n) ==
    IF DictHas(colSc.fact.node_scores, n) THEN colSc.fact.node_scores.val[n] ELSE <<>>

ColDim(n) ==
    IF DictHas(colSc.dim.node_scores, n) THEN colSc.dim.node_scores.val[n] ELSE <<>>

\* visit_column of the named scorer has been made
ColVisitedBy(name) == colSc # <<>> /\ colSc.name = name

\* C18: a column visit of the type scorer records, for the visited column
\* only, at most one dimension score and at most one fact entry: the
\* configured dimension weight iff the type is dimension-viable, a fact
\* disqualification iff the type is fact-disqualifying (fact-viable or not),
\* the configured fact weight iff the type is fact-viable and not
\* disqualifying, nothing for an unknown type.  With the defaults VARCHAR
\* gets dimension score 200 and fact score -100000.
C18_TypeScorer ==
    ColVisitedBy("type") =>
        /\ KeySet(colSc.dim.node_scores) \subseteq {ColIdOf(colData)}
        /\ KeySet(colSc.fact.node_scores) \subseteq {ColIdOf(colData)}
        /\ Len(ColDim(ColIdOf(colData))) <= 1
        /\ Len(ColFact(ColIdOf(colData))) <= 1
        /\ (colData.type_name \in DOMAIN colDefs.dim_scores)
              <=> (/\ Len(ColDim(ColIdOf(colData))) = 1
                   /\ colData.type_name \in DOMAIN colDefs.dim_scores
                   /\ ColDim(ColIdOf(colData))[1].score
                         = colDefs.dim_scores[colData.type_name])
        /\ (colData.type_name \in colDefs.fact_dq)
              <=> (/\ Len(ColFact(ColIdOf(colData))) = 1
                   /\ ColFact(ColIdOf(colData))[1].reason \in DqReasons
                   /\ ColFact(ColIdOf(colData))[1].score = -100000)
        /\ (/\ colData.type_name \in DOMAIN colDefs.fact_scores
             /\ colData.type_name \notin colDefs.fact_dq)
              <=> (/\ Len(ColFact(ColIdOf(colData))) = 1
                   /\ ColFact(ColIdOf(colData))[1].reason \notin DqReasons
                   /\ colData.type_name \in DOMAIN colDefs.fact_scores
                   /\ ColFact(ColIdOf(colData))[1].score
                         = colDefs.fact_scores[colData.type_name])
        /\ (colDefs = DEFAULT_TYPE_SCORING /\ colData.type_name = <<"VARCHAR">>)
              => (/\ Len(ColDim(ColIdOf(colData))) = 1
                  /\ ColDim(ColIdOf(colData))[1].score = 200
                  /\ Len(ColFact(ColIdOf(colData))) = 1
                  /\ ColFact(ColIdOf(colData))[1].score = -100000)

\* the type scorer has visited a column whose type is dimension-viable,
\* fact-viable and fact-disqualifying at once
C18_Witness ==
    /\ ColVisitedBy("type")
    /\ colData.type_name \in DOMAIN colDefs.dim_scores
    /\ colData.type_name \in DOMAIN colDefs.fact_scores
    /\ colData.type_name \in colDefs.fact_dq
    /\ Len(ColDim(ColIdOf(colData))) = 1
    /\ ColFact(ColIdOf(colData))[1].score = -100000

\* the words of the column under visit
ColWords ==
    ColNames[CHOOSE i \in 1..Len(ColNames) : ColNames[i].name = colData.column_name].words

\* the dictionary entries that are one of the words
MatchedEntries(words) ==
    {i \in 1..Len(KeywordFactScores) :
        \E j \in 1..Len(words) : words[j] = KeywordFactScores[i].kw}

\* the sum of the weights of the dictionary entries that are one of the words
MatchedWeight(words) ==
    LET f[i \in 0..Len(KeywordFactScores)] ==
            IF i = 0 THEN 0
            ELSE IF i \in MatchedEntries(words) THEN f[i - 1] + KeywordFactScores[i].score
            ELSE f[i - 1]
    IN f[Len(KeywordFactScores)]

ColFactDqs ==
    {j \in 1..Len(ColFact(ColIdOf(colData))) :
        /\ ColFact(ColIdOf(colData))[j].reason \in DqReasons
        /\ ColFact(ColIdOf(colData))[j].score = -100000}

ColFactPositives ==
    {j \in 1..Len(ColFact(ColIdOf(colData))) : ColFact(ColIdOf(colData))[j].score > 0}

C20_StoreImmutableAfterLoad ==
    [][md.has_data => md' = md]_vars

\* C21: dump on a store on which no load or load_from_db has completed
\* raises ValueError, leaves the file as it was and the store unchanged and
\* empty; on a store on which one has completed dump does not raise and does
\* not change the store.
C21_Dump ==
    [][(storeOp'.op = "dump" /\ storeOp'.n = storeOp.n + 1) =>
          IF storeOp.loaded
          THEN storeOp'.err = "none" /\ md' = md
          ELSE /\ storeOp'.err = "ValueError"
               /\ file' = file
               /\ md' = md
               /\ is_empty(md')]_vars

\* dump has raised on a store that an interrupted load_from_db has left with
\* some of its mappings assigned, while a bundle file exists
C21_Witness ==
    /\ storeOp.op = "dump"
    /\ storeOp.err = "ValueError"
    /\ Len(md.tables.keys) > 0
    /\ file # NoFile

\* C30: a load_from_db or load that fails leaves the store exactly as it was:
\* the six mappings, both indexes and is_empty.
C30_FailedLoadChangesNothing ==
    [][(/\ storeOp'.op \in {"load", "load_from_db"}
        /\ storeOp'.n = storeOp.n + 1
        /\ storeOp'.err # "none") => md' = md]_vars

\* the graph was built from the store as it is now and the store passed the
\* builder's checks
BuiltFromValid == Built /\ pc # "reloaded" /\ StructurallyValid

FkNodes == {n \in NodeSet(g) : HasAttr(g.nattr[n], "node_type") /\ g.nattr[n].node_type = "fk"}

\* the edges of kind edge_type into and out of node n
InEdgesOfType(n, edge_type) == {e \in InEdges(g, n) : g.eattr[e].edge_type = edge_type}
OutEdgesOfType(n, edge_type) == {e \in OutEdges(g, n) : g.eattr[e].edge_type = edge_type}

\* column c is a column node attached to table t
ColumnOf(c, t) ==
    /\ HasEdge(g, t, c)
    /\ g.eattr[<<t, c>>].edge_type = "table-column"

\* C24: in a graph built from a structurally valid store every fk node has
\* exactly one incoming 'table-fk' edge and exactly one outgoing 'fk-table'
\* edge, every 'column-fk' edge into it starts at a column of the table its
\* 'table-fk' edge comes from, and every 'fk-column' edge out of it ends at a
\* column of the table its 'fk-table' edge goes to.
C24_FkNodeEdges ==
    BuiltFromValid =>
        \A k \in FkNodes :
            /\ Cardinality(InEdgesOfType(k, "table-fk")) = 1
            /\ Cardinality(OutEdgesOfType(k, "fk-table")) = 1
            /\ \A e \in InEdgesOfType(k, "column-fk") :
                  \A t \in InEdgesOfType(k, "table-fk") : ColumnOf(e[1], t[1])
            /\ \A e \in OutEdgesOfType(k, "fk-column") :
                  \A t \in OutEdgesOfType(k, "fk-table") : ColumnOf(e[2], t[2])

PkNodes == {n \in NodeSet(g) : HasAttr(g.nattr[n], "node_type") /\ g.nattr[n].node_type = "pk"}

\* C25: in a graph built from a structurally valid store every pk node has at
\* least one outgoing 'pk-column' edge, all of them to columns of the table
\* that owns the pk, as many as the key has member rows, and with key_seq
\* attributes that are exactly 1..N for that number N.
C25_PkNodeEdges ==
    BuiltFromValid =>
        \A k \in PkNodes :
            /\ OutEdgesOfType(k, "pk-column") # {}
            /\ \A e \in OutEdgesOfType(k, "pk-column") :
                  \A t \in InEdgesOfType(k, "table-pk") : ColumnOf(e[2], t[1])
            /\ Cardinality(InEdgesOfType(k, "table-pk")) = 1
            /\ Cardinality(OutEdgesOfType(k, "pk-column")) = Len(md.pks.val[k])
            /\ {g.eattr[e].key_seq : e \in OutEdgesOfType(k, "pk-column")}
                  = 1..Len(md.pks.val[k])

\* a graph with a two-column key whose members the source reported in
\* another order than their key_seq
C25_Witness ==
    /\ BuiltFromValid
    /\ \E k \in PkNodes :
          /\ Len(md.pks.val[k]) = 2
          /\ md.pks.val[k][1].key_seq = 2
          /\ Cardinality(OutEdgesOfType(k, "pk-column")) = 2

\* the traversal has returned without an error
Returned ==
    \/ pc \in {"visited", "scored"}
    \/ (pc = "scoring" /\ Len(stack) = 0)

\* the edge kinds followed at the node of entry e
FollowAt(e) ==
    follow_edges(visitor.ret[CallbackFor(e.edge_type, g.nattr[e.to_node].node_type)],
                 fallback_nav, e.edge_type, g.nattr[e.to_node].node_type)

\* the followed destinations of entry e that are of one kind, in the order in
\* which the graph enumerates the out-edges of e's node
FollowedOfKind(e, kind) ==
    LET outs == g.adj[e.to_node]
        f[i \in 0..Len(outs)] ==
            IF i = 0 THEN <<>>
            ELSE IF /\ g.eattr[<<e.to_node, outs[i]>>].edge_type \in FollowAt(e)
                    /\ g.nattr[outs[i]].node_type = kind
            THEN Append(f[i - 1],
                        VisitStackEntry(e.to_node, outs[i],
                                        g.eattr[<<e.to_node, outs[i]>>].edge_type,
                                        g.eattr[<<e.to_node, outs[i]>>]))
            ELSE f[i - 1]
    IN f[Len(outs)]

\* the followed destinations of e: schema, table, column, pk, fk
DestinationsInOrder(e) ==
    FollowedOfKind(e, "schema") \o FollowedOfKind(e, "table") \o
    FollowedOfKind(e, "column") \o FollowedOfKind(e, "pk") \o FollowedOfKind(e, "fk")

RECURSIVE WalkBeneath(_)
\* e, then each destination of e in order, each with everything beneath it
WalkBeneath(e) ==
    LET ds == DestinationsInOrder(e)
        f[i \in 0..Len(ds)] ==
            IF i = 0 THEN <<e>> ELSE f[i - 1] \o WalkBeneath(ds[i])
    IN f[Len(ds)]

\* C22: in a traversal that has returned, every visit is followed at once by
\* the visits of its followed destinations, kind by kind in the order schema,
\* table, column, pk, fk and within a kind in the order of the node's
\* out-edges, each destination with everything visited beneath it; every
\* column of a table is visited before the table's pk and fk nodes.
C22_VisitOrder ==
    Returned =>
        /\ \A p \in 1..Len(trail) :
              /\ p + Len(WalkBeneath(trail[p])) - 1 <= Len(trail)
              /\ SubSeq(trail, p, p + Len(WalkBeneath(trail[p])) - 1)
                    = WalkBeneath(trail[p])
        /\ \A i \in 1..Len(trail) : \A j \in 1..Len(trail) :
              (/\ trail[i].from_node = trail[j].from_node
               /\ trail[i].edge_type = "table-column"
               /\ trail[j].edge_type \in {"table-pk", "table-fk"}) => i < j

\* a returned traversal in which a table's two columns, a reference beneath
\* the first of them, the table's pk and its fk were visited in this order
C22_Witness ==
    /\ Returned
    /\ \E t \in TableIds :
        \E i \in 1..Len(trail) : \E r \in 1..Len(trail) : \E j \in 1..Len(trail) :
        \E k \in 1..Len(trail) : \E f \in 1..Len(trail) :
          /\ i < r /\ r < j /\ j < k /\ k < f
          /\ trail[i].from_node = t /\ trail[i].edge_type = "table-column"
          /\ trail[r].from_node = trail[i].to_node /\ trail[r].edge_type = "reference"
          /\ trail[j].from_node = t /\ trail[j].edge_type = "table-column"
          /\ trail[k].from_node = t /\ trail[k].edge_type = "table-pk"
          /\ trail[f].from_node = t /\ trail[f].edge_type = "table-fk"

\* the entry popped by the round being made
Popped == stack[Len(stack)]

\* the callback of the round being made has returned: the driver has chosen
\* the edges to follow
Chosen(round) == round.callback # "none" /\ round.by = "driver"

\* C23: the edge kinds followed at a visited node are the set the callback
\* returned, an empty one included; if it returned none, the fallback entry
\* for the kind of the inbound edge; if there is none, the fallback entry for
\* the node's kind; else the empty set.  Only out-edges of these kinds are
\* pushed.  An arrival by a 'reference' edge invokes visit_reference and no
\* other callback, any other arrival the callback of the node's kind.
C23_FollowSet ==
    [][(pc \in {"visiting", "scoring"} /\ Len(stack) > 0 /\ Chosen(last')) =>
         /\ last'.callback = IF Popped.edge_type = "reference" THEN "visit_reference"
                             ELSE node_visit_funs[g.nattr[Popped.to_node].node_type]
         /\ last'.follow =
               IF visitor.ret[last'.callback].some
               THEN visitor.ret[last'.callback].edges
               ELSE IF Popped.edge_type \in DOMAIN fallback_nav
               THEN fallback_nav[Popped.edge_type]
               ELSE IF g.nattr[Popped.to_node].node_type \in DOMAIN fallback_nav
               THEN fallback_nav[g.nattr[Popped.to_node].node_type]
               ELSE {}
         /\ (last'.err = "none" /\ pc' # "cut") =>
               /\ SubSeq(stack', 1, Len(stack) - 1) = SubSeq(stack, 1, Len(stack) - 1)
               /\ {<<stack'[i].to_node, stack'[i].edge_type>> :
                        i \in Len(stack)..Len(stack')}
                    = {<<e[2], g.eattr[e].edge_type>> :
                        e \in {x \in OutEdges(g, Popped.to_node) :
                                 g.eattr[x].edge_type \in last'.follow}}]_vars

\* a callback has returned the empty set at a node for whose kind the
\* fallback has a non-empty entry, and nothing was followed
C23_Witness ==
    /\ pc = "visiting"
    /\ last.callback = "visit_table"
    /\ visitor.ret["visit_table"] = Return({})
    /\ fallback_nav["table"] # {}
    /\ last.follow = {}

\* a column was reached by a reference while the fallback has an entry for
\* the edge kind and another for the node kind
C23_WitnessEdgeKind ==
    /\ pc = "visiting"
    /\ last.callback = "visit_reference"
    /\ "reference" \in DOMAIN fallback_nav
    /\ fallback_nav["column"] # {}
    /\ last.follow = {}

\* what component i alone makes of the callback of the round being made
OwnVisit(i, callback) ==
    component_visit(called(scorers[i], callback, Popped.to_node, Popped.from_node),
                    callback, Popped.to_node, get_node_metadata(md, Popped.to_node),
                    Popped.from_node, Popped.edge_data).sc

NoScoreWritten(gr) ==
    \A n \in NodeSet(gr) :
        ~HasAttr(gr.nattr[n], "fact_score") /\ ~HasAttr(gr.nattr[n], "dim_score")

\* C26: no round of the traversal of add_fact_and_dim_scores changes the
\* graph or the store or leaves a fact_score or dim_score attribute, and each
\* component is after the round what it was or what its own callback alone
\* makes of it; the attributes are written by the step that follows the
\* traversal.
C26_TraversalOnlyReads ==
    [][/\ (pc = "scoring" /\ Len(stack) > 0) =>
              /\ g' = g
              /\ md' = md
              /\ NoScoreWritten(g')
              /\ \A i \in 1..Len(scorers) :
                    \/ scorers'[i] = scorers[i]
                    \/ scorers'[i] = OwnVisit(i, last'.callback)
       /\ (NoScoreWritten(g) /\ ~NoScoreWritten(g')) =>
              (pc = "scoring" /\ Len(stack) = 0 /\ pc' = "scored")]_vars

\* the traversal has finished with scores gathered by two components for one
\* column and nothing written yet
C26_Witness ==
    /\ pc = "scoring"
    /\ Len(stack) = 0
    /\ NoScoreWritten(g)
    /\ Len(scorers) >= 2
    /\ \E n \in NodeSet(g) :
          /\ Len(FactScoresOf(1, n)) > 0
          /\ Len(FactScoresOf(2, n)) > 0
          /\ FactScoresOf(1, n) # FactScoresOf(2, n)

\* the traversal of add_fact_and_dim_scores has ended, by return or by raise
ScoringEnded ==
    \/ (pc = "scoring" /\ Len(stack) = 0)
    \/ pc \in {"score_raised", "scored"}

NodesOfKind(kind) ==
    {n \in NodeSet(g) : HasAttr(g.nattr[n], "node_type") /\ g.nattr[n].node_type = kind}

ReferenceEdges == {e \in EdgeSet(g) : g.eattr[e].edge_type = "reference"}

\* the rounds in which the driver popped an arrival at node n that was not
\* by a reference
NodeVisits(n) ==
    {p \in 1..Len(trail) : trail[p].to_node = n /\ trail[p].edge_type # "reference"}

\* the rounds in which the driver popped an arrival by the reference edge e
ReferenceVisits(e) ==
    {p \in 1..Len(trail) :
        /\ trail[p].from_node = e[1]
        /\ trail[p].to_node = e[2]
        /\ trail[p].edge_type = "reference"}

\* C27: the traversal of add_fact_and_dim_scores on a graph built without
\* type nodes from a structurally valid store ends without an error, having
\* invoked visit_schema, visit_table, visit_column and visit_pk exactly once
\* for each schema, table, column and pk node, and visit_reference exactly
\* once for each 'reference' edge of the graph.
C27_EachNodeOnce ==
    (ScoringEnded /\ StructurallyValid /\ NodesOfKind("type") = {}) =>
        /\ pc # "score_raised"
        /\ \A n \in NodesOfKind("schema") \cup NodesOfKind("table")
                    \cup NodesOfKind("column") \cup NodesOfKind("pk") :
              Cardinality(NodeVisits(n)) = 1
        /\ \A e \in ReferenceEdges : Cardinality(ReferenceVisits(e)) = 1
        /\ Cardinality({p \in 1..Len(trail) : trail[p].edge_type = "reference"})
              = Cardinality(ReferenceEdges)

\* every reference edge of the graph carries a key name
ReferencesNamed == \A e \in ReferenceEdges : HasAttr(g.eattr[e], "fk_name")

\* the same for graphs in which no scorer callback raises
EachNodeOnceWhenNamed ==
    (ScoringEnded /\ StructurallyValid /\ NodesOfKind("type") = {} /\ ReferencesNamed)
        => C27_EachNodeOnce

\* each component's scorer after a traversal of its own over the graph
AloneRuns ==
    [i \in 1..Len(scorers) |-> accept_scorer_alone(g, md, scorers[i].name)]

ScoresOf(obj, n) == IF DictHas(obj.node_scores, n) THEN obj.node_scores.val[n] ELSE <<>>

SameMultiset(a, b) ==
    \A x \in {a[i] : i \in 1..Len(a)} \cup {b[i] : i \in 1..Len(b)} :
        Count(a, x) = Count(b, x)

\* C28: when the composite's traversal of a graph from a structurally valid
\* store has returned, its fact and dimension objectives hold for every node
\* the same multiset of scores as the merge of the objectives of the scorers
\* run one by one, each in a traversal of its own over the same graph.
C28_CompositeIsMergeOfAloneRuns ==
    (pc = "scoring" /\ Len(stack) = 0 /\ StructurallyValid) =>
        LET runs == AloneRuns
            alone == [i \in 1..Len(scorers) |-> runs[i].scs[1]]
            composite_fact == fact_scoring(scorers)
            composite_dim == dimension_scoring(scorers)
            merged_fact == fact_scoring(alone)
            merged_dim == dimension_scoring(alone)
        IN /\ \A i \in 1..Len(scorers) : runs[i].err = "none"
           /\ \A n \in NodeSet(g) :
                 /\ SameMultiset(ScoresOf(composite_fact, n), ScoresOf(merged_fact, n))
                 /\ SameMultiset(ScoresOf(composite_dim, n), ScoresOf(merged_dim, n))

\* a returned composite traversal of three scorers over a graph with a
\* reference edge, which the type scorer on its own does not follow
C28_Witness ==
    /\ pc = "scoring" /\ Len(stack) = 0 /\ StructurallyValid
    /\ Len(scorers) = 3
    /\ ReferenceEdges # {}
    /\ \E n \in NodeSet(g) :
          /\ Len(ScoresOf(fact_scoring(scorers), n)) >= 3
          /\ Len(ScoresOf(dimension_scoring(scorers), n)) = 0

\* the nodes made for types: those of the type table and the flagged
\* placeholders of types missing from it
TypeNodes == NodesOfKind("type") \cup {n \in NodeSet(g) : HasAttr(g.nattr[n], "wtftype")}

\* a traversal of the graph has ended, by return or by raise
TraversalEnded ==
    \/ ScoringEnded
    \/ pc \in {"visited", "visit_raised"}

\* C29: on a graph built with type nodes from a structurally valid store,
\* types that no column uses and placeholder types included, accept_visitor
\* and add_fact_and_dim_scores end without an error, and after
\* add_fact_and_dim_scores every node has fact_score and dim_score.
C29_TypeNodesAreHarmless ==
    (TraversalEnded /\ StructurallyValid /\ TypeNodes # {}) =>
        /\ pc \notin {"visit_raised", "score_raised"}
        /\ pc = "scored" =>
              \A n \in NodeSet(g) :
                  HasAttr(g.nattr[n], "fact_score") /\ HasAttr(g.nattr[n], "dim_score")

====
